---- MODULE Spec2Model ----
(***************************************************************************)
(* A model of the BLAS rewriting pipeline of pytensor/tensor/blas.py:      *)
(* the Gemm op (make_node, perform), the GEMM canonicalization             *)
(* (_gemm_canonicalize, _factor_canonicalized, _gemm_from_factored_list,   *)
(* _gemm_from_node2), the GemmOptimizer driver and the in-place            *)
(* specialization, running on a FunctionGraph.                             *)
(*                                                                         *)
(* Variables of the graph are integers: 1..8 are the graph inputs (Leaves),*)
(* ConstVar(k) is the scalar constant k, OutVar(n) is the single output of *)
(* Apply n.  An Apply is a record [op, inplace, order, inputs, type].      *)
(* A tensor type is [dtype, bc]: the dtype and the broadcastable pattern   *)
(* (bc[i] is TRUE when the static length of axis i is 1).                  *)
(***************************************************************************)
EXTENDS Integers, Sequences, FiniteSets, TLC

\* Bounds of the model.
MaxTerms == 3
MaxRuns == 2
MaxLen == 3
MaxNodes == 2
MaxRules == 2
MaxPower == 9

(***************************************************************************)
(* Variables, types                                                        *)
(***************************************************************************)
LeafNames == <<"X", "Y", "Z", "alpha", "beta", "c64", "Imat", "W">>

LeafVar(name) == CHOOSE i \in 1..Len(LeafNames) : LeafNames[i] = name

X == LeafVar("X")
Y == LeafVar("Y")
Z == LeafVar("Z")
alpha == LeafVar("alpha")
beta == LeafVar("beta")
c64 == LeafVar("c64")
Imat == LeafVar("Imat")
W == LeafVar("W")

Leaves == 1..Len(LeafNames)

ConstVar(k) == 20 + k

OutVar(n) == 100 + n

IsConst(v) == v > 10 /\ v < 30

ConstValue(v) == v - 20

\* var.owner: the Apply that produces v, 0 for None.
Owner(v) == IF v > 100 THEN v - 100 ELSE 0

Matrix(dt) == [dtype |-> dt, bc |-> <<FALSE, FALSE>>]

Scalar(dt) == [dtype |-> dt, bc |-> <<>>]

LeafType(v) ==
  CASE v \in {X, Y, Z} -> Matrix("float32")
    [] v \in {alpha, beta} -> Scalar("float32")
    [] v = c64 -> Scalar("float64")
    [] v = Imat -> Matrix("int8")
    [] OTHER -> Matrix("float64")

\* The type of a variable: a graph input, a constant made by
\* as_tensor_variable from a Python float (float32 holds it exactly), or the
\* output of an Apply of the store.
VarType(store, v) ==
  IF v \in Leaves THEN LeafType(v)
  ELSE IF IsConst(v) THEN Scalar("float32")
  ELSE store[Owner(v)].type

ndim(t) == Len(t.bc)

DtypeRank(dt) ==
  CASE dt = "bool" -> 0
    [] dt = "int8" -> 1
    [] dt = "float32" -> 2
    [] dt = "float64" -> 3
    [] OTHER -> 4

\* pytensor.scalar.upcast on the dtypes of the model.
upcast(d1, d2) == IF DtypeRank(d1) >= DtypeRank(d2) THEN d1 ELSE d2

BlasDtypes == {"float16", "float32", "float64", "complex64", "complex128"}

\* TensorType.in_same_class: same dtype and same broadcastable pattern.
in_same_class(t1, t2) == t1.dtype = t2.dtype /\ t1.bc = t2.bc

AllOnes(t) == \A i \in 1..Len(t.bc) : t.bc[i]

(***************************************************************************)
(* The store of Apply objects and the make_node of each op                 *)
(***************************************************************************)
MaxOf(S) == IF S = {} THEN 0 ELSE CHOOSE m \in S : \A x \in S : x <= m

MinOf(S) == CHOOSE m \in S : \A x \in S : m <= x

NewApply(o, ip, ord, ins, t) ==
  [op |-> o, inplace |-> ip, order |-> ord, inputs |-> ins, type |-> t]

\* A new Apply object: it gets the first identity not in use.
Alloc(store, rec) ==
  LET n == MaxOf(DOMAIN store) + 1
  IN [store |-> store @@ (n :> rec), v |-> OutVar(n)]

\* DimShuffle.make_node: order holds an input axis (0-based) or -1 for "x".
DimShuffle_make_node(store, order, v) ==
  LET t == VarType(store, v)
      obc == [i \in 1..Len(order) |->
                IF order[i] = -1 THEN TRUE ELSE t.bc[order[i] + 1]]
  IN Alloc(store, NewApply("DimShuffle", FALSE, order, <<v>>,
                           [dtype |-> t.dtype, bc |-> obc]))

MaxNdim(store, ins) == MaxOf({ndim(VarType(store, ins[i])) : i \in 1..Len(ins)})

\* Elemwise.get_output_info: an input of lower rank is left-completed with
\* broadcastable axes by a DimShuffle.
RECURSIVE ElemwiseArgs(_, _, _, _)
ElemwiseArgs(store, ins, target, k) ==
  IF k > Len(ins) THEN [store |-> store, ins |-> ins]
  ELSE LET length == ndim(VarType(store, ins[k]))
           difference == target - length
       IN IF difference = 0 THEN ElemwiseArgs(store, ins, target, k + 1)
          ELSE LET order == [i \in 1..target |->
                               IF i <= difference THEN -1 ELSE i - difference - 1]
                   d == DimShuffle_make_node(store, order, ins[k])
               IN ElemwiseArgs(d.store, [ins EXCEPT ![k] = d.v], target, k + 1)

RECURSIVE UpcastAll(_, _, _)
UpcastAll(store, ins, k) ==
  IF k = Len(ins) THEN VarType(store, ins[k]).dtype
  ELSE upcast(VarType(store, ins[k]).dtype, UpcastAll(store, ins, k + 1))

\* Elemwise.make_node for add, sub, neg, mul: the output dtype is the upcast
\* of the input dtypes, an output axis is broadcastable when it is so in
\* every input.
ElemwiseApply(op, target, a) ==
  Alloc(a.store,
        NewApply(op, FALSE, <<>>, a.ins,
                 [dtype |-> UpcastAll(a.store, a.ins, 1),
                  bc |-> [i \in 1..target |->
                            \A k \in 1..Len(a.ins) : VarType(a.store, a.ins[k]).bc[i]]]))

Elemwise_make_node(store, op, inputs) ==
  ElemwiseApply(op, MaxNdim(store, inputs),
                ElemwiseArgs(store, inputs, MaxNdim(store, inputs), 1))

\* at.cast: the variable itself when the dtype is already right, otherwise
\* an Elemwise cast.
cast(store, v, dt) ==
  IF VarType(store, v).dtype = dt THEN [store |-> store, v |-> v]
  ELSE Alloc(store, NewApply("Cast", FALSE, <<>>, <<v>>,
                             [dtype |-> dt, bc |-> VarType(store, v).bc]))

\* Dot22.make_node: "ok" or the exception it raises.
Dot22_check(store, x, y) ==
  LET tx == VarType(store, x)
      ty == VarType(store, y)
  IN IF ndim(tx) # 2 \/ tx.dtype \notin BlasDtypes THEN "TypeError"
     ELSE IF ndim(ty) # 2 \/ ty.dtype \notin BlasDtypes THEN "TypeError"
     ELSE IF ty.dtype # tx.dtype THEN "TypeError"
     ELSE "ok"

Dot22_make_node(store, x, y) ==
  Alloc(store, NewApply("Dot22", FALSE, <<>>, <<x, y>>,
                        [dtype |-> VarType(store, x).dtype,
                         bc |-> <<VarType(store, x).bc[1], VarType(store, y).bc[2]>>]))

\* view_roots: the variables whose storage v is a view of (an op with a
\* view_map, here DimShuffle, passes the storage of its input on).
RECURSIVE view_roots(_, _)
view_roots(store, v) ==
  IF Owner(v) # 0 /\ store[Owner(v)].op = "DimShuffle"
  THEN view_roots(store, store[Owner(v)].inputs[1])
  ELSE {v}

\* A DenseTensorType; a type without the field is dense.
IsDense_always(t) == TRUE

IsDense(t) == "dense" \notin DOMAIN t \/ t.dense

\* A Gemm that declares no destroy_map whatever its inplace flag.
Gemm_destroy_map_none(inplace) == {}

\* Gemm.__init__: the destroy_map of the op, as the set of pairs
\* <<output index, destroyed input index>>.
Gemm_destroy_map(inplace) == IF inplace THEN {<<0, 0>>} ELSE {}

\* A make_node that looks for z among the views of x only.
Gemm_check_x_only(store, inplace, inputs) ==
  IF Len(inputs) # 5 THEN "TypeError"
  ELSE IF inplace /\ view_roots(store, inputs[1]) \cap view_roots(store, inputs[3]) # {}
       THEN "InconsistencyError"
       ELSE "ok"

\* A make_node that counts its inputs and looks no further.
Gemm_check_count_only(store, inplace, inputs) ==
  IF Len(inputs) # 5 THEN "TypeError" ELSE "ok"

\* Gemm.make_node: "ok" or the exception it raises.
Gemm_check(store, inplace, inputs) ==
  IF \E i \in 1..Len(inputs) : ~IsDense(VarType(store, inputs[i]))
  THEN "NotImplementedError"
  ELSE IF Len(inputs) # 5 THEN "TypeError"
  ELSE LET z == inputs[1]
           a == inputs[2]
           x == inputs[3]
           y == inputs[4]
           b == inputs[5]
           zr == view_roots(store, z)
           xr == view_roots(store, x)
           yr == view_roots(store, y)
           T(v) == VarType(store, v)
       IN IF inplace /\ zr \cap xr # {} THEN "InconsistencyError"
          ELSE IF inplace /\ zr \cap yr # {} THEN "InconsistencyError"
          ELSE IF ndim(T(z)) # 2 THEN "TypeError"
          ELSE IF ndim(T(a)) # 0 THEN "TypeError"
          ELSE IF ndim(T(x)) # 2 THEN "TypeError"
          ELSE IF ndim(T(y)) # 2 THEN "TypeError"
          ELSE IF ndim(T(b)) # 0 THEN "TypeError"
          ELSE IF ~(T(z).dtype = T(a).dtype /\ T(a).dtype = T(x).dtype
                    /\ T(x).dtype = T(y).dtype /\ T(y).dtype = T(b).dtype)
               THEN "TypeError"
          ELSE IF T(z).dtype \notin {"float16", "float32", "float64",
                                     "complex64", "complex128"}
               THEN "TypeError"
          ELSE "ok"

\* Gemm.make_node when it raises nothing: Apply(self, inputs, [z.type()]).
Gemm_make_node(store, inplace, inputs) ==
  Alloc(store, NewApply("Gemm", inplace, <<>>, inputs, VarType(store, inputs[1])))

(***************************************************************************)
(* FunctionGraph: the Applies of the graph, the clients of every variable, *)
(* the outputs.  A graph under edit is a record g that also carries the    *)
(* nodes imported so far (what the on_import listeners were told) and the  *)
(* history of the changes (what a rollback undoes).                        *)
(***************************************************************************)
Range(s) == {s[i] : i \in 1..Len(s)}

Clients(g, v) == IF v \in DOMAIN g.clients THEN g.clients[v] ELSE {}

PairMin(S) ==
  CHOOSE p \in S : \A q \in S : p[1] < q[1] \/ (p[1] = q[1] /\ p[2] <= q[2])

\* An add_client that records nothing.
add_client_missing(g, v, c) == g

add_client(g, v, c) ==
  [g EXCEPT !.clients = (v :> (Clients(g, v) \cup {c})) @@ g.clients]

\* import_node: the Applies that are not in the graph yet are added,
\* ancestors first; each becomes a client of its inputs and is announced to
\* the on_import listeners.
RECURSIVE import_node(_, _), import_inputs(_, _, _), add_clients(_, _, _)
import_var(g, v) ==
  IF Owner(v) # 0
  THEN IF Owner(v) \in g.apply_nodes THEN g ELSE import_node(g, Owner(v))
  ELSE IF v \in DOMAIN g.clients THEN g
  ELSE [g EXCEPT !.clients = (v :> {}) @@ g.clients]

import_inputs(g, n, k) ==
  IF k > Len(g.store[n].inputs) THEN g
  ELSE import_inputs(import_var(g, g.store[n].inputs[k]), n, k + 1)

add_clients(g, n, k) ==
  IF k > Len(g.store[n].inputs) THEN g
  ELSE add_clients(add_client(g, g.store[n].inputs[k], <<n, k>>), n, k + 1)

with_node(g1, n) ==
  [g1 EXCEPT !.apply_nodes = g1.apply_nodes \cup {n},
             !.clients = (OutVar(n) :> {}) @@ g1.clients,
             !.imported = Append(g1.imported, n)]

import_node(g, n) == add_clients(with_node(import_inputs(g, n, 1), n), n, 1)

\* remove_client: a variable that loses its last client, and is no output,
\* takes its Apply out of the graph, and so on up the graph (pruning).
RECURSIVE remove_client(_, _, _), remove_clients(_, _, _)
remove_client(g, v, c) ==
  LET cl == Clients(g, v) \ {c}
      g1 == [g EXCEPT !.clients = (v :> cl) @@ g.clients]
      n == Owner(v)
  IN IF cl # {} \/ n = 0 \/ n \notin g.apply_nodes \/ v \in Range(g.outputs)
     THEN g1
     ELSE remove_clients(
            [g1 EXCEPT !.apply_nodes = g1.apply_nodes \ {n},
                       !.clients = [u \in (DOMAIN g1.clients) \ {v} |-> g1.clients[u]]],
            n, 1)

remove_clients(g, n, k) ==
  IF k > Len(g.store[n].inputs) THEN g
  ELSE remove_clients(remove_client(g, g.store[n].inputs[k], <<n, k>>), n, k + 1)

\* change_node_input: input i of Apply n becomes new_var.
change_node_input(g, n, i, new_var) ==
  LET r == g.store[n].inputs[i]
      g1 == [g EXCEPT !.store[n].inputs[i] = new_var,
                      !.hist = Append(g.hist, <<n, i, r>>)]
      g2 == add_client(import_var(g1, new_var), new_var, <<n, i>>)
  IN IF r = new_var THEN g ELSE remove_client(g2, r, <<n, i>>)

\* A variable that is no longer an output and has no client leaves the graph.
prune_output(g2, r) ==
  IF Owner(r) # 0 /\ Owner(r) \in g2.apply_nodes /\ Clients(g2, r) = {}
     /\ r \notin Range(g2.outputs)
  THEN remove_clients(
         [g2 EXCEPT !.apply_nodes = g2.apply_nodes \ {Owner(r)},
                    !.clients = [u \in (DOMAIN g2.clients) \ {r} |-> g2.clients[u]]],
         Owner(r), 1)
  ELSE g2

\* change_node_input for output k of the graph (recorded in the history
\* with Apply 0).
change_output(g, k, new_var) ==
  IF g.outputs[k] = new_var THEN g
  ELSE prune_output(import_var([g EXCEPT !.outputs[k] = new_var,
                                         !.hist = Append(g.hist, <<0, k, g.outputs[k]>>)],
                               new_var),
                    g.outputs[k])

\* replace: every use of var, as an input or as an output, becomes new_var.
RECURSIVE replace_inputs(_, _, _), replace_outputs(_, _, _, _)
replace_inputs(g, var, new_var) ==
  IF Clients(g, var) = {} THEN g
  ELSE LET c == PairMin(Clients(g, var))
       IN replace_inputs(change_node_input(g, c[1], c[2], new_var), var, new_var)

replace_outputs(g, var, new_var, k) ==
  IF k > Len(g.outputs) THEN g
  ELSE IF g.outputs[k] = var
       THEN replace_outputs(change_output(g, k, new_var), var, new_var, k + 1)
       ELSE replace_outputs(g, var, new_var, k + 1)

InGraph(g, v) == v \in DOMAIN g.clients \/ v \in Range(g.outputs)

replace(g, var, new_var) ==
  IF ~InGraph(g, var) \/ var = new_var THEN g
  ELSE replace_outputs(replace_inputs(g, var, new_var), var, new_var, 1)

RECURSIVE replace_all(_, _, _)
replace_all(g, pairs, k) ==
  IF k > Len(pairs) THEN g
  ELSE replace_all(replace(g, pairs[k][1], pairs[k][2]), pairs, k + 1)

\* revert: the recorded changes are undone, the last one first.
RECURSIVE revert_from(_, _, _)
revert_from(g, hist, k) ==
  IF k = 0 THEN [g EXCEPT !.hist = <<>>]
  ELSE LET h == hist[k]
       IN revert_from(IF h[1] = 0 THEN change_output(g, h[2], h[3])
                      ELSE change_node_input(g, h[1], h[2], h[3]),
                      hist, k - 1)

\* A revert that forgets the history without undoing it.
revert_forgets(g) == [g EXCEPT !.hist = <<>>]

revert(g) == revert_from(g, g.hist, Len(g.hist))

(***************************************************************************)
(* Validation                                                              *)
(***************************************************************************)
\* The graph is acyclic: the Applies can be taken away one by one, each
\* after the Applies it reads.
RECURSIVE Peel(_, _)
Peel(g, left) ==
  LET ready == {n \in left : \A i \in 1..Len(g.store[n].inputs) :
                               Owner(g.store[n].inputs[i]) \notin left}
  IN IF ready = {} THEN left ELSE Peel(g, left \ ready)

Acyclic(g) == Peel(g, g.apply_nodes) = {}

\* The Applies that Apply n reads, directly or not (of an acyclic graph).
RECURSIVE Ancestors(_, _)
Ancestors(store, n) ==
  LET direct == {Owner(store[n].inputs[i]) : i \in 1..Len(store[n].inputs)} \ {0}
  IN direct \cup UNION {Ancestors(store, m) : m \in direct}

destroy_map(node) == IF node.op = "Gemm" THEN Gemm_destroy_map(node.inplace) ELSE {}

GraphVars(g) == DOMAIN g.clients \cup Range(g.outputs)

\* The variables of the graph that share the storage of v.
Impact(g, v) ==
  {u \in GraphVars(g) : view_roots(g.store, u) \cap view_roots(g.store, v) # {}}

\* No destructive Apply overwrites storage that something else still needs:
\* every other user of the storage runs before it, it does not read that
\* storage through another input, nor is the storage an output of the graph.
AliasSafe(g) ==
  \A n \in g.apply_nodes :
    \A d \in destroy_map(g.store[n]) :
      LET z == g.store[n].inputs[d[2] + 1]
          imp == Impact(g, z)
      IN /\ imp \cap Range(g.outputs) = {}
         /\ \A v \in imp : \A c \in Clients(g, v) :
              \/ (v = z /\ c = <<n, d[2] + 1>>)
              \/ (/\ c[1] # n
                  /\ n \notin Ancestors(g.store, c[1])
                  /\ \A e \in destroy_map(g.store[c[1]]) : c[2] # e[2] + 1)

validate(g) == Acyclic(g) /\ AliasSafe(g)

TypesOk(g, pairs) ==
  \A k \in 1..Len(pairs) :
    in_same_class(VarType(g.store, pairs[k][1]), VarType(g.store, pairs[k][2]))

\* A validation whose failure is not heeded.
validated_anyway(g1) == [g |-> g1, exc |-> "ok"]

\* replace_all_validate: all the replacements of the batch, then the
\* validation; a failure undoes the batch and raises InconsistencyError.
validated(g1) ==
  IF validate(g1) THEN [g |-> g1, exc |-> "ok"]
  ELSE [g |-> revert(g1), exc |-> "InconsistencyError"]

replace_all_validate(g, pairs) ==
  IF ~TypesOk(g, pairs) THEN [g |-> g, exc |-> "TypeError"]
  ELSE validated(replace_all([g EXCEPT !.hist = <<>>], pairs, 1))

\* replace_all_validate_remove: as above, and every variable of remove must
\* have left the graph, or the batch is undone.
removed(r, remove) ==
  IF r.exc = "ok" /\ \E rm \in remove : InGraph(r.g, rm)
  THEN [g |-> revert(r.g), exc |-> "ReplacementDidNotRemoveError"]
  ELSE r

replace_all_validate_remove(g, pairs, remove) ==
  removed(replace_all_validate(g, pairs), remove)

(***************************************************************************)
(* GEMM canonicalization.  A scale is <<0, k>>, the Python number k, or    *)
(* <<1, v>>, the variable v.  An entry of a canonicalized list is a tuple  *)
(* (scale, M), tup = TRUE, or the bare variable M, tup = FALSE.            *)
(***************************************************************************)
Num(k) == <<0, k>>

Sym(v) == <<1, v>>

\* as_tensor_variable of a scale.
ScaleVar(scale) == IF scale[1] = 0 THEN ConstVar(scale[2]) ELSE scale[2]

Tup(scale, r) == [tup |-> TRUE, s |-> scale, M |-> r]

Bare(r) == [tup |-> FALSE, s |-> Num(0), M |-> r]

_is_real_matrix(t) ==
  t.dtype \in {"float16", "float32", "float64"} /\ ndim(t) = 2 /\ ~t.bc[1] /\ ~t.bc[2]

_is_real_vector(t) ==
  t.dtype \in {"float16", "float32", "float64"} /\ ndim(t) = 1 /\ ~t.bc[1]

\* scaled(thing) of _gemm_canonicalize; a scale that is a variable equals
\* neither 1 nor -1.
scaled(store, scale, thing) ==
  IF scale = Num(1) THEN [store |-> store, v |-> thing]
  ELSE IF scale = Num(-1) /\ VarType(store, thing).dtype # "bool"
       THEN Elemwise_make_node(store, "neg", <<thing>>)
       ELSE Elemwise_make_node(store, "mul", <<ScaleVar(scale), thing>>)

\* A negation that is lost.
NegScale_lost(store, scale) == [store |-> store, s |-> scale]

\* -scale
AsScale(r) == [store |-> r.store, s |-> Sym(r.v)]

NegScale(store, scale) ==
  IF scale[1] = 0 THEN [store |-> store, s |-> Num(-scale[2])]
  ELSE AsScale(Elemwise_make_node(store, "neg", <<scale[2]>>))

\* s_i + s_j
AddScale(store, s1, s2) ==
  IF s1[1] = 0 /\ s2[1] = 0 THEN [store |-> store, s |-> Num(s1[2] + s2[2])]
  ELSE AsScale(Elemwise_make_node(store, "add", <<ScaleVar(s1), ScaleVar(s2)>>))

RECURSIVE StripDimShuffle(_, _)
StripDimShuffle(store, i) ==
  IF Owner(i) # 0 /\ store[Owner(i)].op = "DimShuffle"
  THEN StripDimShuffle(store, store[Owner(i)].inputs[1])
  ELSE i

\* The loop over the inputs of a mul: scalars, vectors, matrices, and
\* ok = FALSE at the first input that is none of them.
RECURSIVE MulFactors(_, _, _)
AddScalar(acc, d) == [acc EXCEPT !.store = d.store, !.scalars = Append(acc.scalars, d.v)]

\* A broadcastable factor: its DimShuffle is stripped, and what is left is
\* made 0-dimensional.
ScalarFactor(store, j) ==
  IF ndim(VarType(store, j)) > 0 THEN DimShuffle_make_node(store, <<>>, j)
  ELSE [store |-> store, v |-> j]

MulFactors(acc, ins, k) ==
  IF k > Len(ins) THEN acc
  ELSE LET i == ins[k]
           t == VarType(acc.store, i)
       IN IF AllOnes(t)
          THEN MulFactors(
                 AddScalar(acc, ScalarFactor(acc.store, StripDimShuffle(acc.store, i))),
                 ins, k + 1)
          ELSE IF _is_real_vector(t)
               THEN MulFactors([acc EXCEPT !.vectors = Append(acc.vectors, i)], ins, k + 1)
          ELSE IF _is_real_matrix(t)
               THEN MulFactors([acc EXCEPT !.matrices = Append(acc.matrices, i)], ins, k + 1)
          ELSE [acc EXCEPT !.ok = FALSE]

\* The scale handed down by a mul with scalar factors.
TimesRest(s1, rest) ==
  IF rest = <<>> THEN AsScale(s1)
  ELSE AsScale(Elemwise_make_node(s1.store, "mul", <<s1.v>> \o rest))

MulScale(store, scale, scalars) ==
  IF Len(scalars) = 0 THEN [store |-> store, s |-> scale]
  ELSE TimesRest(scaled(store, scale, scalars[1]), Tail(scalars))

Appended(c, st, entry) == [c EXCEPT !.store = st, !.rval = Append(c.rval, entry)]

AppendBare(c, s) == Appended(c, s.store, Bare(s.v))

\* A client count that is never looked at.
too_many_clients_never(g, r, maxclients) == FALSE

\* maxclients and len(fgraph.clients[r]) > maxclients
too_many_clients(g, r, maxclients) ==
  maxclients # 0 /\ Cardinality(Clients(g, r)) > maxclients

\* r is decomposed: the recursion goes into its inputs (c.opened records
\* the variables this happened to).
Open(c, r) == [c EXCEPT !.opened = @ \cup {r}]

\* _gemm_canonicalize(fgraph, r, scale, rval, maxclients); c = [store, rval,
\* err] is the store and the list under construction.
RECURSIVE _gemm_canonicalize(_, _, _, _, _), canonicalize_inputs(_, _, _, _, _)
RECURSIVE canonicalize_scaled(_, _, _, _), canonicalize_second(_, _, _, _)
RECURSIVE canonicalize_mul(_, _, _, _, _)
_gemm_canonicalize(g, c, r, scale, maxclients) ==
  LET t == VarType(c.store, r)
      op == IF Owner(r) # 0 THEN c.store[Owner(r)].op ELSE "None"
      ins == c.store[Owner(r)].inputs
  IN IF ndim(t) \notin {1, 2} \/ t.dtype \notin BlasDtypes
     THEN AppendBare(c, scaled(c.store, scale, r))
     ELSE IF too_many_clients(g, r, maxclients)
     THEN Appended(c, c.store, Tup(scale, r))
     ELSE IF op = "sub"
     THEN canonicalize_second(g, _gemm_canonicalize(g, Open(c, r), ins[1], scale, 1),
                               ins[2], scale)
     ELSE IF op = "add"
     THEN canonicalize_inputs(g, Open(c, r), ins, scale, 1)
     ELSE IF op = "neg"
     THEN canonicalize_scaled(g, Open(c, r), ins[1], NegScale(c.store, scale))
     ELSE IF op = "mul"
     THEN canonicalize_mul(g, c, r, scale,
                           MulFactors([store |-> c.store, scalars |-> <<>>,
                                       vectors |-> <<>>, matrices |-> <<>>, ok |-> TRUE],
                                      ins, 1))
     ELSE Appended(c, c.store, Tup(scale, r))

\* The second operand of a sub, with -scale.
canonicalize_second(g, c1, r2, scale) ==
  canonicalize_scaled(g, c1, r2, NegScale(c1.store, scale))

\* The recursive call with a scale that was just built (ns = [store, s]).
canonicalize_scaled(g, c, r, ns) ==
  _gemm_canonicalize(g, [c EXCEPT !.store = ns.store], r, ns.s, 1)

\* The mul branch once the inputs are sorted into scalars, vectors, matrices.
canonicalize_mul(g, c, r, scale, f) ==
  IF ~f.ok THEN Appended(c, f.store, Tup(scale, r))
  ELSE IF (Len(f.matrices) = 1 /\ Len(f.vectors) # 0)
          \/ (Len(f.matrices) # 1 /\ Len(f.vectors) = 1 /\ Len(f.matrices) # 0)
  THEN [c EXCEPT !.err = "AssertionError"]
  ELSE IF Len(f.matrices) = 1
  THEN canonicalize_scaled(g, Open(c, r), f.matrices[1],
                           MulScale(f.store, scale, f.scalars))
  ELSE IF Len(f.vectors) = 1
  THEN canonicalize_scaled(g, Open(c, r), f.vectors[1],
                           MulScale(f.store, scale, f.scalars))
  ELSE Appended(c, f.store, Tup(scale, r))

canonicalize_inputs(g, c, ins, scale, k) ==
  IF k > Len(ins) THEN c
  ELSE canonicalize_inputs(g, _gemm_canonicalize(g, c, ins[k], scale, 1), ins, scale, k + 1)

RemoveAt(lst, j) == SubSeq(lst, 1, j - 1) \o SubSeq(lst, j + 1, Len(lst))

\* _factor_canonicalized: the inner loop, for a fixed i, then the outer one.
RECURSIVE factor_inner(_, _, _, _), factor_merge(_, _, _, _)
factor_inner(store, lst, i, j) ==
  IF j > Len(lst) THEN [store |-> store, lst |-> lst]
  ELSE IF ~lst[j].tup THEN factor_inner(store, lst, i, j + 1)
  ELSE IF lst[i].M = lst[j].M
       THEN factor_merge(lst, i, j, AddScale(store, lst[i].s, lst[j].s))
       ELSE factor_inner(store, lst, i, j + 1)

\* A merge that sums the scales and leaves lst[j] in the list.
factor_merge_keeps(lst, i, j, sum) ==
  factor_inner(sum.store, [lst EXCEPT ![i].s = sum.s], i, j + 1)

\* lst[i] = (s_i + s_j, M_i); del lst[j]
factor_merge(lst, i, j, sum) ==
  factor_inner(sum.store, RemoveAt([lst EXCEPT ![i].s = sum.s], j), i, j)

RECURSIVE factor_outer(_, _, _), factor_next(_, _)
factor_outer(store, lst, i) ==
  IF i >= Len(lst) THEN [store |-> store, lst |-> lst]
  ELSE IF ~lst[i].tup THEN factor_outer(store, lst, i + 1)
  ELSE factor_next(factor_inner(store, lst, i, i + 1), i)

factor_next(r, i) == factor_outer(r.store, r.lst, i + 1)

_factor_canonicalized(store, lst) == factor_outer(store, lst, 1)

\* What a step of the synthesis returns: rval is the replacement, 0 for
\* False or None; old is the Dot22 variable it absorbs; cand is the candidate
\* that was built, also when it is not returned; err is "ok" or the
\* exception raised.
NoGemm(store, err) ==
  [store |-> store, rval |-> 0, old |-> 0, cand |-> 0, err |-> err]

Found(r, old) ==
  [store |-> r.store, rval |-> r.v, old |-> old, cand |-> r.v, err |-> "ok"]

\* gemm_no_inplace(z, a, x, y, b) called inside a rewrite.
gemm_no_inplace(store, ins, old) ==
  IF Gemm_check(store, FALSE, ins) # "ok"
  THEN NoGemm(store, Gemm_check(store, FALSE, ins))
  ELSE Found(Gemm_make_node(store, FALSE, ins), old)

\* rval.dimshuffle(back)
Shuffled(gm, back) ==
  IF gm.err # "ok" THEN gm
  ELSE Found(DimShuffle_make_node(gm.store, back, gm.rval), gm.old)

\* gemm_no_inplace(L.dimshuffle(lorder), alpha, MMl, MMr, beta).dimshuffle(back)
Through(Ld, a, MMn, b, back, old) ==
  Shuffled(gemm_no_inplace(Ld.store, <<Ld.v, a, MMn.inputs[1], MMn.inputs[2], b>>, old),
           back)

\* _beta_L_plus_alpha_M: the expression (beta * L) + (alpha * M).
RECURSIVE _beta_L_plus_alpha_M(_, _, _, _, _, _)
_beta_L_plus_alpha_M(store, b, L, a, M, recurse_flip) ==
  LET Mn == store[Owner(M)]
      MM == Mn.inputs[1]
      MMn == store[Owner(MM)]
  IN IF Owner(M) # 0 /\ Mn.op = "Dot22"
     THEN gemm_no_inplace(store, <<L, a, Mn.inputs[1], Mn.inputs[2], b>>, M)
     ELSE IF Owner(M) # 0 /\ Mn.op = "DimShuffle" /\ Owner(MM) # 0
             /\ MMn.op = "Dot22" /\ Mn.order \in {<<0>>, <<1>>, <<>>}
     THEN IF Mn.order = <<0>>
          THEN Through(DimShuffle_make_node(store, <<0, -1>>, L), a, MMn, b, <<0>>, MM)
          ELSE IF Mn.order = <<1>>
          THEN Through(DimShuffle_make_node(store, <<-1, 0>>, L), a, MMn, b, <<1>>, MM)
          ELSE Through(DimShuffle_make_node(store, <<-1, -1>>, L), a, MMn, b, <<>>, MM)
     ELSE IF recurse_flip THEN _beta_L_plus_alpha_M(store, a, M, b, L, FALSE)
     ELSE NoGemm(store, "ok")

\* The first loop of _gemm_from_factored_list: only the tuples whose scale
\* casts to the dtype of the term are kept, the scale cast to that dtype.
RECURSIVE matching_dtypes(_, _, _, _)
matching_dtypes(store, lst, k, lst2) ==
  IF k > Len(lst) THEN [store |-> store, lst |-> lst2]
  ELSE IF lst[k].tup
          /\ upcast(VarType(store, ScaleVar(lst[k].s)).dtype,
                    VarType(store, lst[k].M).dtype) = VarType(store, lst[k].M).dtype
       THEN LET sm0 == cast(store, ScaleVar(lst[k].s), VarType(store, lst[k].M).dtype)
            IN matching_dtypes(sm0.store, lst, k + 1,
                               Append(lst2, [s |-> sm0.v, M |-> lst[k].M]))
       ELSE matching_dtypes(store, lst, k + 1, lst2)

\* item_to_var: s is a variable here, which equals neither 1 nor -1.
item_to_var(store, t) == Elemwise_make_node(store, "mul", <<t.s, t.M>>)

\* add_inputs: item_to_var of every entry but the two of the pair.
RECURSIVE add_inputs_of(_, _, _, _, _, _), add_input(_, _, _, _, _, _)
add_inputs_of(store, lst, i, j, k, acc) ==
  IF k > Len(lst) THEN [store |-> store, ins |-> acc]
  ELSE IF k \in {i, j} THEN add_inputs_of(store, lst, i, j, k + 1, acc)
  ELSE add_input(item_to_var(store, lst[k]), lst, i, j, k, acc)

add_input(x, lst, i, j, k, acc) ==
  add_inputs_of(x.store, lst, i, j, k + 1, Append(acc, x.v))

sum_result(gm, sum) ==
  [store |-> sum.store, rval |-> sum.v, old |-> gm.old, cand |-> sum.v, err |-> "ok"]

\* A result that leaves out the terms that were not fused.
gemm_alone(gm, ai) == gm

with_add_inputs(gm, ai) ==
  IF Len(ai.ins) > 0
  THEN sum_result(gm, Elemwise_make_node(ai.store, "add", Append(ai.ins, gm.rval)))
  ELSE gm

\* The pairs (i, j), i < j, in the order of the two nested loops.
RECURSIVE try_pairs(_, _, _, _), pair_result(_, _, _, _, _)
try_pairs(store, lst, i, j) ==
  IF i > Len(lst) - 1 THEN NoGemm(store, "ok")
  ELSE IF j > Len(lst) THEN try_pairs(store, lst, i + 1, i + 2)
  ELSE IF ~in_same_class(VarType(store, lst[j].M), VarType(store, lst[i].M))
       THEN try_pairs(store, lst, i, j + 1)
  ELSE pair_result(store, lst, i, j,
                   _beta_L_plus_alpha_M(store, lst[i].s, lst[i].M, lst[j].s, lst[j].M, TRUE))

pair_result(store, lst, i, j, gm) ==
  IF gm.err # "ok" THEN gm
  ELSE IF gm.rval = 0 THEN try_pairs(store, lst, i, j + 1)
  ELSE with_add_inputs(gm, add_inputs_of(gm.store, lst, i, j, 1, <<>>))

from_matching(l2) == try_pairs(l2.store, l2.lst, 1, 2)

_gemm_from_factored_list(store, lst) == from_matching(matching_dtypes(store, lst, 1, <<>>))

from_factored(f) == _gemm_from_factored_list(f.store, f.lst)

\* No type check at the end of _gemm_from_node2.
not_type_checked(g, node, r) == r

\* The end of _gemm_from_node2: a result whose type is not in the class of
\* the type of the node's output is given up.
type_checked(g, node, r) ==
  IF r.err # "ok" THEN r
  ELSE IF r.rval # 0
          /\ in_same_class(VarType(r.store, r.rval), VarType(g.store, OutVar(node)))
       THEN r
       ELSE [NoGemm(r.store, "ok") EXCEPT !.old = r.old, !.cand = r.rval]

from_canonicalized(g, node, c) ==
  IF c.err # "ok" THEN NoGemm(g.store, c.err)
  ELSE IF Len(c.rval) > 1
       THEN type_checked(g, node, from_factored(_factor_canonicalized(c.store, c.rval)))
       ELSE NoGemm(g.store, "ok")

\* _gemm_from_node2: the replacement of node's output, 0 for None.
_gemm_from_node2(g, node) ==
  from_canonicalized(g, node,
                     _gemm_canonicalize(g, [store |-> g.store, rval |-> <<>>,
                                            err |-> "ok", opened |-> {}],
                                        OutVar(node), Num(1), 0))

(***************************************************************************)
(* perform: the value a variable computes.  A value is a 2 x 2 matrix      *)
(* <<m11, m12, m21, m22>>; a scalar is held broadcast to that shape.       *)
(***************************************************************************)
Bcast(k) == <<k, k, k, k>>

Dot(x, y) ==
  <<x[1] * y[1] + x[2] * y[3], x[1] * y[2] + x[2] * y[4],
    x[3] * y[1] + x[4] * y[3], x[3] * y[2] + x[4] * y[4]>>

Pointwise(f, x, y) ==
  [i \in 1..4 |-> CASE f = "Plus" -> x[i] + y[i]
                    [] f = "Minus" -> x[i] - y[i]
                    [] OTHER -> x[i] * y[i]]

\* A perform with the two scalars exchanged: z * a + b * dot(x, y).
Gemm_perform_swapped(inplace, z, a, x, y, b) ==
  [out |-> Pointwise("Plus", Pointwise("Times", z, Bcast(a)),
                     Pointwise("Times", Bcast(b), Dot(x, y))),
   z |-> z]

\* Gemm.perform on matrices z, x, y and scalars a, b: out is what is stored
\* in the output, z the array bound to the input afterwards.
Gemm_perform(inplace, z, a, x, y, b) ==
  LET d == Dot(x, y)
      ad == Pointwise("Times", Bcast(a), d)
      r == IF b = 0
           THEN IF a = 1 THEN d
                ELSE IF a = -1 THEN Pointwise("Minus", Bcast(0), d)
                ELSE ad
           ELSE IF b = 1
           THEN IF a = 1 THEN Pointwise("Plus", z, d)
                ELSE IF a = -1 THEN Pointwise("Minus", z, d)
                ELSE Pointwise("Plus", z, ad)
           ELSE Pointwise("Plus", Pointwise("Times", z, Bcast(b)), ad)
  IN [out |-> r, z |-> IF inplace THEN r ELSE z]

RECURSIVE Eval(_, _, _), EvalFold(_, _, _, _, _)
Eval(store, v, env) ==
  IF v \in Leaves THEN env[v]
  ELSE IF IsConst(v) THEN Bcast(ConstValue(v))
  ELSE LET n == store[Owner(v)]
           in(k) == Eval(store, n.inputs[k], env)
       IN CASE n.op = "add" -> EvalFold(store, n.inputs, env, "Plus", 1)
            [] n.op = "mul" -> EvalFold(store, n.inputs, env, "Times", 1)
            [] n.op = "sub" -> Pointwise("Minus", in(1), in(2))
            [] n.op = "neg" -> Pointwise("Minus", Bcast(0), in(1))
            [] n.op = "Dot22" -> Dot(in(1), in(2))
            [] n.op = "Gemm" ->
                 Gemm_perform(n.inplace, in(1), in(2)[1], in(3), in(4), in(5)[1]).out
            [] n.op = "DimShuffle" ->
                 IF n.order = <<1, 0>> THEN <<in(1)[1], in(1)[3], in(1)[2], in(1)[4]>>
                 ELSE in(1)
            [] OTHER -> in(1)

EvalFold(store, ins, env, f, k) ==
  IF k = Len(ins) THEN Eval(store, ins[k], env)
  ELSE Pointwise(f, Eval(store, ins[k], env), EvalFold(store, ins, env, f, k + 1))

\* Input values: a generic assignment, and the one of the GEMM example.
Env ==
  (X :> <<1, 2, 3, 4>>) @@ (Y :> <<0, 1, 1, 2>>) @@ (Z :> <<5, -1, 2, 7>>)
  @@ (alpha :> Bcast(3)) @@ (beta :> Bcast(2)) @@ (c64 :> Bcast(5))
  @@ (Imat :> <<1, 1, 2, 3>>) @@ (W :> <<4, 0, 1, 2>>)

EnvExample ==
  (X :> <<1, 0, 0, 1>>) @@ (Y :> <<5, 6, 7, 8>>) @@ (Z :> <<1, 2, 3, 4>>)
  @@ (alpha :> Bcast(2)) @@ (beta :> Bcast(1)) @@ (c64 :> Bcast(1))
  @@ (Imat :> Bcast(0)) @@ (W :> Bcast(0))

(***************************************************************************)
(* The state                                                               *)
(***************************************************************************)
VARIABLES
  store,          \* the Apply objects that are alive: Apply n |-> record
  apply_nodes,    \* fgraph.apply_nodes
  clients,        \* fgraph.clients: variable |-> set of <<Apply, input index>>
  outputs,        \* fgraph.outputs
  features,       \* the features attached to the graph
  built,          \* the terms of the expression the client has built
  acc,            \* the variable of that expression
  pc,             \* "build", "idle", "gemm_while", "gemm_for", "inplace", "raised",
                  \* "call", "matrix_power_while", "return"
  runs,           \* the rewriters run so far
  did_something, nb_iter, nb_replacement, nb_replacement_didn_t_remove,
  nb_inconsistency_make, nb_inconsistency_replace,  \* locals of GemmOptimizer.apply
  warned,         \* GemmOptimizer.warned
  nodelist,       \* what is left of the list GemmOptimizer.apply iterates over
  q,              \* the queue of blas_opt_inplace
  last,           \* what the last visit of a node did
  pass_replacements,  \* history: the replacements committed in the current pass
  call,           \* a call of a function on its own: [fn, args, rval]
  eq,             \* the state of an EquilibriumGraphRewriter at work
  history,        \* history: the rewriters run so far, in order
  stack_trace     \* the variables that carry the stack trace of the client's code

vars ==
  <<store, apply_nodes, clients, outputs, features, built, acc, pc, runs,
    did_something, nb_iter, nb_replacement, nb_replacement_didn_t_remove,
    nb_inconsistency_make, nb_inconsistency_replace, warned, nodelist, q, last,
    pass_replacements, call, eq, history, stack_trace>>

fgraph_vars == <<store, apply_nodes, clients, outputs>>

gemm_locals ==
  <<did_something, nb_iter, nb_replacement, nb_replacement_didn_t_remove,
    nb_inconsistency_make, nb_inconsistency_replace, nodelist,
    pass_replacements>>

\* The graph as a record under edit.
G ==
  [store |-> store, apply_nodes |-> apply_nodes, clients |-> clients,
   outputs |-> outputs, imported |-> <<>>, hist |-> <<>>]

\* Apply objects that nothing refers to any more are gone.
Collect(st, keep) == [n \in (DOMAIN st) \cap keep |-> st[n]]

EmptyStore == [n \in {} |-> NewApply("None", FALSE, <<>>, <<>>, Scalar("bool"))]

NoCall == [fn |-> "none", args |-> <<>>, rval |-> <<>>]

\* No EquilibriumGraphRewriter is at work.
NoEq ==
  [state |-> "none", rules |-> <<>>, max_use_ratio |-> 0, nodes |-> <<>>, pos |-> 0,
   changed |-> FALSE, count |-> <<>>, max_use |-> 0, applied |-> "none"]

NoLast ==
  [by |-> "none", node |-> 0, stage |-> "none", exc |-> "none",
   told |-> Scalar("bool"), tnew |-> Scalar("bool"),
   vold |-> Bcast(0), vnew |-> Bcast(0), old |-> 0, new |-> 0]

\* io_toposort: the Applies of the graph, each after the Applies it reads.
RECURSIVE toposort_from(_, _, _)
toposort_from(g, left, done) ==
  IF left = {} THEN done
  ELSE LET ready == {n \in left : \A i \in 1..Len(g.store[n].inputs) :
                                    Owner(g.store[n].inputs[i]) \notin left}
           n == MinOf(ready)
       IN toposort_from(g, left \ {n}, Append(done, n))

io_toposort(g) == toposort_from(g, g.apply_nodes, <<>>)

Reverse(s) == [i \in 1..Len(s) |-> s[Len(s) + 1 - i]]

(***************************************************************************)
(* The client builds an expression, a sum or difference of terms, and the  *)
(* FunctionGraph of it.                                                    *)
(***************************************************************************)
TermKinds ==
  {"Z", "bZ", "dot", "adot", "cZ", "I", "W", "dotD", "adotSame", "ginp", "gemm"}

Dot22Nodes(st) == {n \in DOMAIN st : st[n].op = "Dot22"}

Scaled(d, scale) == Elemwise_make_node(d.store, "mul", <<scale, d.v>>)

TermOf(st, kind) ==
  CASE kind = "Z" -> [store |-> st, v |-> Z]
    [] kind = "I" -> [store |-> st, v |-> Imat]
    [] kind = "W" -> [store |-> st, v |-> W]
    [] kind = "bZ" -> Elemwise_make_node(st, "mul", <<beta, Z>>)
    [] kind = "cZ" -> Elemwise_make_node(st, "mul", <<c64, Z>>)
    [] kind = "dot" -> Dot22_make_node(st, X, Z)
    [] kind = "adot" -> Scaled(Dot22_make_node(st, X, Y), alpha)
    [] kind = "dotD" -> Dot22_make_node(st, OutVar(MinOf(Dot22Nodes(st))), X)
    [] kind = "adotSame" ->
         Elemwise_make_node(st, "mul", <<alpha, OutVar(MinOf(Dot22Nodes(st)))>>)
    [] kind = "gemm" -> Gemm_make_node(st, FALSE, <<Z, alpha, X, Y, beta>>)
    [] OTHER -> Gemm_make_node(st, TRUE, <<Z, alpha, X, Y, beta>>)

TermOk(st, kind) ==
  CASE kind \in {"dotD", "adotSame"} -> Dot22Nodes(st) # {}
    [] kind = "ginp" -> Gemm_check(st, TRUE, <<Z, alpha, X, Y, beta>>) = "ok"
    [] OTHER -> TRUE

\* acc = acc + term, or acc - term
Combined(t, op) ==
  IF built = <<>> THEN t ELSE Elemwise_make_node(t.store, op, <<acc, t.v>>)

SetExpression(r) == store' = r.store /\ acc' = r.v

ClientAddTerm(kind, op) ==
  /\ pc = "build"
  /\ Len(built) < MaxTerms
  /\ built = <<>> => op = "add"
  /\ TermOk(store, kind)
  /\ SetExpression(Combined(TermOf(store, kind), op))
  /\ built' = Append(built, <<kind, op>>)
  /\ stack_trace' = stack_trace \cup {OutVar(n) : n \in DOMAIN store' \ DOMAIN store}
  /\ UNCHANGED <<call, eq, history, apply_nodes, clients, outputs, features, pc, runs, gemm_locals,
                 warned, q, last>>

\* The traces of the variables that are still alive after the step.
Kept(traces) == {v \in traces : Owner(v) \in DOMAIN store'}

\* copy_stack_trace(from_var, to_var): to_var gets the trace of from_var.
copy_stack_trace(from_var, to_var) ==
  IF from_var \in stack_trace THEN stack_trace \cup {to_var} ELSE stack_trace

SetGraph(g, keep) ==
  /\ store' = Collect(g.store, g.apply_nodes \cup keep)
  /\ apply_nodes' = g.apply_nodes
  /\ clients' = g.clients
  /\ outputs' = g.outputs

\* FunctionGraph(inputs, [acc]): the Applies the output needs are imported.
NewGraph(g) == validate(g) /\ SetGraph(g, {})

MakeFunctionGraph ==
  /\ pc = "build"
  /\ Len(built) >= 2
  /\ NewGraph(import_var([store |-> store, apply_nodes |-> {},
                          clients |-> [v \in Leaves |-> {}], outputs |-> <<acc>>,
                          imported |-> <<>>, hist |-> <<>>], acc))
  /\ pc' = "idle"
  /\ stack_trace' = Kept(stack_trace)
  /\ UNCHANGED <<call, eq, history, features, built, acc, runs, gemm_locals, warned, q, last>>

(***************************************************************************)
(* GemmOptimizer.apply                                                     *)
(***************************************************************************)
Visit(by, node, stage, exc, vnew, st) ==
  [by |-> by, node |-> node, stage |-> stage, exc |-> exc,
   told |-> VarType(store, OutVar(node)),
   tnew |-> IF vnew = 0 THEN Scalar("bool") ELSE VarType(st, vnew),
   vold |-> Eval(store, OutVar(node), Env),
   vnew |-> IF vnew = 0 THEN Bcast(0) ELSE Eval(st, vnew, Env),
   old |-> 0, new |-> vnew]

Skipped(by, node) == [NoLast EXCEPT !.by = by, !.node = node, !.exc = "skip"]

\* An apply that starts with did_something = False.
GemmApplyBegin_done ==
  /\ pc = "idle"
  /\ runs < MaxRuns
  /\ runs' = runs + 1
  /\ features' = features \cup {"ReplaceValidate", "GemmOptimizer"}
  /\ did_something' = FALSE
  /\ nb_iter' = 0
  /\ nb_replacement' = 0
  /\ nb_replacement_didn_t_remove' = 0
  /\ nb_inconsistency_make' = 0
  /\ nb_inconsistency_replace' = 0
  /\ nodelist' = <<>>
  /\ pass_replacements' = 0
  /\ last' = NoLast
  /\ pc' = "gemm_while"
  /\ history' = Append(history, "GemmOptimizer")
  /\ UNCHANGED <<call, eq, stack_trace, fgraph_vars, built, acc, warned, q>>

\* add_requirements, then the head of apply: the counters, the listener u.
GemmApplyBegin ==
  /\ pc = "idle"
  /\ runs < MaxRuns
  /\ runs' = runs + 1
  /\ features' = features \cup {"ReplaceValidate", "GemmOptimizer"}
  /\ did_something' = TRUE
  /\ nb_iter' = 0
  /\ nb_replacement' = 0
  /\ nb_replacement_didn_t_remove' = 0
  /\ nb_inconsistency_make' = 0
  /\ nb_inconsistency_replace' = 0
  /\ nodelist' = <<>>
  /\ pass_replacements' = 0
  /\ last' = NoLast
  /\ pc' = "gemm_while"
  /\ history' = Append(history, "GemmOptimizer")
  /\ UNCHANGED <<call, eq, stack_trace, fgraph_vars, built, acc, warned, q>>

\* A pass that begins without did_something = False.
GemmPassBegin_keeps_flag ==
  /\ pc = "gemm_while"
  /\ did_something
  /\ nb_iter' = nb_iter + 1
  /\ nodelist' = Reverse(io_toposort(G))
  /\ pass_replacements' = 0
  /\ pc' = "gemm_for"
  /\ UNCHANGED <<call, eq, history, stack_trace, fgraph_vars, features, built, acc, runs,
                 nb_replacement, nb_replacement_didn_t_remove, nb_inconsistency_make,
                 nb_inconsistency_replace, warned, q, last, did_something>>

\* while did_something: a pass begins.
GemmPassBegin ==
  /\ pc = "gemm_while"
  /\ did_something
  /\ nb_iter' = nb_iter + 1
  /\ nodelist' = Reverse(io_toposort(G))
  /\ did_something' = FALSE
  /\ pass_replacements' = 0
  /\ pc' = "gemm_for"
  /\ UNCHANGED <<call, eq, history, stack_trace, fgraph_vars, features, built, acc, runs,
                 nb_replacement, nb_replacement_didn_t_remove, nb_inconsistency_make,
                 nb_inconsistency_replace, warned, q, last>>

IsCandidate(node) == store[node].op \in {"add", "sub", "neg", "mul"}

\* The two continue statements of the for loop.
GemmSkip ==
  /\ pc = "gemm_for"
  /\ nodelist # <<>>
  /\ LET node == Head(nodelist)
     IN /\ ~IsCandidate(node) \/ node \notin apply_nodes
        /\ last' = Skipped("GemmOptimizer", node)
        /\ store' = Collect(store, apply_nodes \cup Range(Tail(nodelist)))
  /\ nodelist' = Tail(nodelist)
  /\ stack_trace' = Kept(stack_trace)
  /\ UNCHANGED <<call, eq, history, apply_nodes, clients, outputs, features, built, acc, pc, runs,
                 did_something, nb_iter, nb_replacement, nb_replacement_didn_t_remove,
                 nb_inconsistency_make, nb_inconsistency_replace, warned, q,
                 pass_replacements>>

\* A loop body whose except clauses fall through to the success path.
GemmOutcome_falls_through(node, stage, exc, g, more) ==
  /\ nodelist' = Tail(nodelist) \o more
  /\ store' = Collect(g.store, g.apply_nodes \cup Range(Tail(nodelist) \o more))
  /\ apply_nodes' = g.apply_nodes
  /\ clients' = g.clients
  /\ outputs' = g.outputs
  /\ stack_trace' = Kept(stack_trace)
  /\ did_something' = (did_something \/ stage = "replace")
  /\ nb_replacement' = nb_replacement + (IF stage = "replace" THEN 1 ELSE 0)
  /\ pass_replacements' = pass_replacements + (IF exc = "ok" THEN 1 ELSE 0)
  /\ nb_inconsistency_make' = nb_inconsistency_make
  /\ nb_inconsistency_replace' =
       nb_inconsistency_replace
       + (IF stage = "replace" /\ exc = "InconsistencyError" THEN 1 ELSE 0)
  /\ nb_replacement_didn_t_remove' =
       nb_replacement_didn_t_remove
       + (IF exc = "ReplacementDidNotRemoveError" THEN 1 ELSE 0)
  /\ warned' = (warned \/ exc = "ReplacementDidNotRemoveError")
  /\ pc' = "gemm_for"

\* What the body of the for loop leaves behind: the graph g, the nodes more
\* that the listener was told of, the counters.
GemmOutcome(node, stage, exc, g, more) ==
  /\ nodelist' = Tail(nodelist) \o more
  /\ SetGraph(g, Range(Tail(nodelist) \o more))
  /\ stack_trace' = Kept(stack_trace)
  /\ did_something' = (did_something \/ exc = "ok")
  /\ nb_replacement' = nb_replacement + (IF exc = "ok" THEN 1 ELSE 0)
  /\ pass_replacements' = pass_replacements + (IF exc = "ok" THEN 1 ELSE 0)
  /\ nb_inconsistency_make' =
       nb_inconsistency_make
       + (IF stage = "make" /\ exc = "InconsistencyError" THEN 1 ELSE 0)
  /\ nb_inconsistency_replace' =
       nb_inconsistency_replace
       + (IF stage = "replace" /\ exc = "InconsistencyError" THEN 1 ELSE 0)
  /\ nb_replacement_didn_t_remove' =
       nb_replacement_didn_t_remove
       + (IF exc = "ReplacementDidNotRemoveError" THEN 1 ELSE 0)
  /\ warned' = (warned \/ exc = "ReplacementDidNotRemoveError")
  /\ pc' = IF exc \in {"ok", "none", "InconsistencyError", "ReplacementDidNotRemoveError"}
           THEN "gemm_for" ELSE "raised"

\* A listener that appends nothing to the node list.
GemmReplaced_deaf(node, r, rr) ==
  /\ last' = [Visit("GemmOptimizer", node, "replace", rr.exc, r.rval, r.store)
                EXCEPT !.old = r.old]
  /\ GemmOutcome(node, "replace", rr.exc, rr.g, <<>>)

\* fgraph.replace_all_validate_remove has returned or raised.
GemmReplaced(node, r, rr) ==
  /\ last' = [Visit("GemmOptimizer", node, "replace", rr.exc, r.rval, r.store)
                EXCEPT !.old = r.old]
  /\ GemmOutcome(node, "replace", rr.exc, rr.g,
                 SelectSeq(rr.g.imported, LAMBDA n : n # node))

\* A loop body that passes an empty remove list to the replace call.
GemmAttempt_removes_nothing(node, r) ==
  IF r.err # "ok"
  THEN /\ last' = Visit("GemmOptimizer", node, "make", r.err, 0, store)
       /\ GemmOutcome(node, "make", r.err, G, <<>>)
  ELSE IF r.rval = 0
  THEN /\ last' = Visit("GemmOptimizer", node, IF r.cand = 0 THEN "none" ELSE "type",
                        "none", r.cand, r.store)
       /\ GemmOutcome(node, "none", "none", G, <<>>)
  ELSE GemmReplaced(node, r,
                    replace_all_validate_remove([G EXCEPT !.store = r.store],
                                                <<<<OutVar(node), r.rval>>>>, {}))

\* _gemm_from_node2 has returned r, or raised.
GemmAttempt(node, r) ==
  IF r.err # "ok"
  THEN /\ last' = Visit("GemmOptimizer", node, "make", r.err, 0, store)
       /\ GemmOutcome(node, "make", r.err, G, <<>>)
  ELSE IF r.rval = 0
  THEN /\ last' = Visit("GemmOptimizer", node, IF r.cand = 0 THEN "none" ELSE "type",
                        "none", r.cand, r.store)
       /\ GemmOutcome(node, "none", "none", G, <<>>)
  ELSE GemmReplaced(node, r,
                    replace_all_validate_remove([G EXCEPT !.store = r.store],
                                                <<<<OutVar(node), r.rval>>>>, {r.old}))

\* The body of the for loop for a candidate node of the graph.
GemmTry ==
  /\ pc = "gemm_for"
  /\ nodelist # <<>>
  /\ IsCandidate(Head(nodelist))
  /\ Head(nodelist) \in apply_nodes
  /\ GemmAttempt(Head(nodelist), _gemm_from_node2(G, Head(nodelist)))
  /\ UNCHANGED <<call, eq, history, features, built, acc, runs, nb_iter, q>>

\* The body of the for loop when the recursion of _gemm_canonicalize under
\* _gemm_from_node2 exceeds the interpreter's recursion limit: the
\* RecursionError is caught by no except clause of apply.  How much of the
\* stack is left when apply is called is not known, so the error is one of
\* the outcomes of the visit of any candidate node.
GemmTryRaises ==
  /\ pc = "gemm_for"
  /\ nodelist # <<>>
  /\ IsCandidate(Head(nodelist))
  /\ Head(nodelist) \in apply_nodes
  /\ last' = Visit("GemmOptimizer", Head(nodelist), "make", "RecursionError", 0, store)
  /\ GemmOutcome(Head(nodelist), "make", "RecursionError", G, <<>>)
  /\ UNCHANGED <<call, eq, history, features, built, acc, runs, nb_iter, q>>

\* The for loop is over.
GemmPassEnd ==
  /\ pc = "gemm_for"
  /\ nodelist = <<>>
  /\ pc' = "gemm_while"
  /\ UNCHANGED <<call, eq, history, stack_trace, fgraph_vars, features, built, acc, runs,
                 gemm_locals, warned, q, last>>

\* The while loop is over: remove_feature(u) and the return.
GemmApplyReturn ==
  /\ pc = "gemm_while"
  /\ ~did_something
  /\ features' = features \ {"GemmOptimizer"}
  /\ pc' = "idle"
  /\ UNCHANGED <<call, eq, history, stack_trace, fgraph_vars, built, acc, runs, gemm_locals,
                 warned, q, last>>

(***************************************************************************)
(* blas_opt_inplace = in2out(local_inplace_gemm, ...)                      *)
(***************************************************************************)
\* The walk begins: the queue is the graph, inputs to outputs.
InplaceBegin ==
  /\ pc = "idle"
  /\ runs < MaxRuns
  /\ runs' = runs + 1
  /\ features' = features \cup {"ReplaceValidate", "blas_opt_inplace"}
  /\ q' = io_toposort(G)
  /\ last' = NoLast
  /\ pc' = "inplace"
  /\ history' = Append(history, "blas_opt_inplace")
  /\ UNCHANGED <<call, eq, stack_trace, fgraph_vars, built, acc, gemm_locals, warned>>

\* node.op == gemm_no_inplace
local_inplace_gemm_applies(node) ==
  store[node].op = "Gemm" /\ ~store[node].inplace

\* A node that left the graph, or that local_inplace_gemm does not track.
InplaceSkip ==
  /\ pc = "inplace"
  /\ q # <<>>
  /\ LET node == Head(q)
     IN /\ node \notin apply_nodes \/ ~local_inplace_gemm_applies(node)
        /\ last' = Skipped("blas_opt_inplace", node)
        /\ store' = Collect(store, apply_nodes \cup Range(Tail(q)))
  /\ q' = Tail(q)
  /\ stack_trace' = Kept(stack_trace)
  /\ UNCHANGED <<call, eq, history, apply_nodes, clients, outputs, features, built, acc, pc, runs,
                 gemm_locals, warned>>

\* What the visit of a node leaves behind.
InplaceOutcome(g, more) ==
  /\ q' = Tail(q) \o more
  /\ SetGraph(g, Range(Tail(q) \o more))

\* replace_all_validate_remove has returned or raised; the failure callback
\* of the walk ignores an InconsistencyError.
InplaceReplaced(node, gm, rr) ==
  /\ last' = Visit("blas_opt_inplace", node, "replace", rr.exc, gm.v, gm.store)
  /\ InplaceOutcome(rr.g, SelectSeq(rr.g.imported, LAMBDA n : n # node))
  /\ stack_trace' = Kept(copy_stack_trace(OutVar(node), gm.v))

\* gemm_inplace(*node.inputs) has returned gm.
InplaceMade(node, gm) ==
  InplaceReplaced(node, gm,
                  replace_all_validate_remove([G EXCEPT !.store = gm.store],
                                              <<<<OutVar(node), gm.v>>>>, {}))

\* local_inplace_gemm on a gemm_no_inplace node of the graph.
local_inplace_gemm ==
  /\ pc = "inplace"
  /\ q # <<>>
  /\ Head(q) \in apply_nodes
  /\ local_inplace_gemm_applies(Head(q))
  /\ IF Gemm_check(store, TRUE, store[Head(q)].inputs) # "ok"
     THEN /\ last' = Visit("blas_opt_inplace", Head(q), "make",
                           Gemm_check(store, TRUE, store[Head(q)].inputs), 0, store)
          /\ InplaceOutcome(G, <<>>)
          /\ stack_trace' = Kept(stack_trace)
     ELSE InplaceMade(Head(q), Gemm_make_node(store, TRUE, store[Head(q)].inputs))
  /\ UNCHANGED <<call, eq, history, features, built, acc, pc, runs, gemm_locals, warned>>

\* The queue is empty: the listener of the walk is detached.
InplaceEnd ==
  /\ pc = "inplace"
  /\ q = <<>>
  /\ features' = features \ {"blas_opt_inplace"}
  /\ pc' = "idle"
  /\ UNCHANGED <<call, eq, history, stack_trace, fgraph_vars, built, acc, runs, gemm_locals,
                 warned, q, last>>

(***************************************************************************)
(* The specification                                                       *)
(***************************************************************************)
Init ==
  /\ store = EmptyStore
  /\ apply_nodes = {}
  /\ clients = [v \in Leaves |-> {}]
  /\ outputs = <<>>
  /\ features = {}
  /\ built = <<>>
  /\ acc = 0
  /\ pc = "build"
  /\ runs = 0
  /\ did_something = FALSE
  /\ nb_iter = 0
  /\ nb_replacement = 0
  /\ nb_replacement_didn_t_remove = 0
  /\ nb_inconsistency_make = 0
  /\ nb_inconsistency_replace = 0
  /\ warned = FALSE
  /\ nodelist = <<>>
  /\ q = <<>>
  /\ last = NoLast
  /\ pass_replacements = 0
  /\ call = NoCall
  /\ eq = NoEq
  /\ history = <<>>
  /\ stack_trace = {}

Next ==
  \/ \E kind \in TermKinds, op \in {"add", "sub"} : ClientAddTerm(kind, op)
  \/ MakeFunctionGraph
  \/ GemmApplyBegin
  \/ GemmPassBegin
  \/ GemmSkip
  \/ GemmTry
  \/ GemmPassEnd
  \/ GemmApplyReturn
  \/ InplaceBegin
  \/ InplaceSkip
  \/ local_inplace_gemm
  \/ InplaceEnd

Spec == Init /\ [][Next]_vars

\* The same program on an interpreter whose recursion limit can be reached.
NextLimit == Next \/ GemmTryRaises

SpecLimit == Init /\ [][NextLimit]_vars

(***************************************************************************)
(* The functions called on their own: _factor_canonicalized on a           *)
(* canonicalized list, Gemm.make_node on five inputs.                      *)
(***************************************************************************)
\* The entries of a canonicalized list: (scale, M) with a number or a
\* variable as the scale, and a bare variable.
Entries ==
  {Tup(sc, M) : sc \in {Num(-1), Num(1), Num(3), Sym(alpha)}, M \in {Z, X}}
  \cup {Bare(Imat)}

CanonLists == UNION {[1..n -> Entries] : n \in 0..MaxLen}

\* The Applies of the store: Z.T, a view of Z, and a sparse float32 matrix
\* (a graph input that has no name among the leaves).
ViewStore ==
  DimShuffle_make_node(EmptyStore, <<1, 0>>, Z).store
  @@ (2 :> NewApply("Input", FALSE, <<>>, <<>>,
                    [dtype |-> "float32", bc |-> <<FALSE, FALSE>>, dense |-> FALSE]))

Sparse == OutVar(2)

Zt == DimShuffle_make_node(EmptyStore, <<1, 0>>, Z).v

GemmArgs ==
  {<<z, a, x, y, b>> : z \in {Z, Zt, X, Imat, Sparse}, a \in {alpha, c64, X},
                       x \in {X, Z, Zt}, y \in {Y, Z, Zt}, b \in {beta, c64}}
  \cup {<<Z, alpha, X, Y>>, <<Z, alpha, X, Y, beta, beta>>, <<Sparse, alpha, X, Y>>}

\* Gemm.perform on arrays of any shape.  zshape is z.shape: () with vectors
\* x and y, (1, 1) with a z that is broadcast against 2 x 2 matrices (the
\* broadcast copy is what is written to), (2, 2) otherwise.
Gemm_perform_any_shape(inplace, zshape, z, a, x, y, b) ==
  IF zshape = <<>>
  THEN LET r == <<z[1] * a + b * (x[1] * y[1] + x[2] * y[2])>>
       IN  [out |-> r, z |-> IF inplace THEN r ELSE z]
  ELSE IF zshape = <<1, 1>>
  THEN [out |-> Gemm_perform(TRUE, Bcast(z[1]), a, x, y, b).out, z |-> z]
  ELSE Gemm_perform(inplace, z, a, x, y, b)

\* np.outer(cx, cy) of two vectors of length 2.
outer(cx, cy) == <<cx[1] * cy[1], cx[1] * cy[2], cx[2] * cy[1], cx[2] * cy[2]>>

\* A perform that always works on cA itself.
Ger_perform_no_copy(destructive, cA, calpha, cx, cy) ==
  [out |-> Pointwise("Plus", cA, Pointwise("Times", Bcast(calpha), outer(cx, cy))),
   A |-> Pointwise("Plus", cA, Pointwise("Times", Bcast(calpha), outer(cx, cy)))]

\* Ger.perform: out is what is stored in the output, A the array bound to
\* the input afterwards.
Ger_perform(destructive, cA, calpha, cx, cy) ==
  LET r == IF calpha # 1
           THEN Pointwise("Plus", cA, Pointwise("Times", Bcast(calpha), outer(cx, cy)))
           ELSE Pointwise("Plus", cA, outer(cx, cy))
  IN  [out |-> r, A |-> IF destructive THEN r ELSE cA]

\* The scalars and the arrays the performs are called on.
ScalarValues == {-1, 0, 1, 2}

GemmPerformArgs ==
  {<<inplace, zshape, IF zshape = <<2, 2>> THEN <<1, 2, 3, 4>> ELSE <<3>>,
     a, IF zshape = <<>> THEN <<1, 2>> ELSE <<1, 0, 2, 1>>,
     IF zshape = <<>> THEN <<2, 1>> ELSE <<0, 1, 1, 3>>, b>> :
     inplace \in BOOLEAN, zshape \in {<<>>, <<1, 1>>, <<2, 2>>},
     a \in ScalarValues, b \in ScalarValues}

GerPerformArgs ==
  {<<destructive, cA, calpha, cx, <<2, 1>>>> :
     destructive \in BOOLEAN, cA \in {<<1, 2, 3, 4>>, <<0, 0, 0, 0>>},
     calpha \in ScalarValues, cx \in {<<1, 2>>, <<0, 3>>}}

\* db.register(name, rewriter, *tags, position=position).  Positions are
\* kept in tenths: 1.7 is 17, 70.0 is 700.
register(db, name, tags, position) ==
  Append(db, [name |-> name, tags |-> tags, position |-> position])

\* blas_optdb after the module has run, in the order of its register calls.
blas_optdb ==
  register(register(register(register(<<>>,
    "local_dot_to_dot22", {"fast_run", "fast_compile"}, 0),
    "gemm_optimizer", {"fast_run"}, 100),
    "local_gemm_to_gemv", {"fast_run"}, 150),
    "local_dot22_to_dot22scalar", {"fast_run"}, 110)

\* What the module registers in optdb.
optdb ==
  register(register(<<>>,
    "BlasOpt", {"fast_run", "fast_compile"}, 17),
    "InplaceBlasOpt", {"fast_run", "inplace", "blas_opt_inplace"}, 700)

\* The entries in the order of their registration.
in_registration_order(lst) == lst

\* The entries by ascending position.
RECURSIVE sorted_by_position(_)
sorted_by_position(lst) ==
  IF lst = <<>> THEN <<>>
  ELSE LET rest == sorted_by_position(Tail(lst))
           before == SelectSeq(rest, LAMBDA e : e.position <= Head(lst).position)
           after == SelectSeq(rest, LAMBDA e : e.position > Head(lst).position)
       IN  before \o <<Head(lst)>> \o after

\* db.query(*tags): the entries that carry a requested tag, by position.
query(db, tags) ==
  sorted_by_position(SelectSeq(db, LAMBDA e : e.tags \cap tags # {}))

\* The registries at each point of the module's run, and the tag sets asked.
Registries ==
  {SubSeq(blas_optdb, 1, n) : n \in 0..Len(blas_optdb)}
  \cup {SubSeq(optdb, 1, n) : n \in 1..Len(optdb)}

QueryTags == SUBSET {"fast_run", "fast_compile", "inplace", "blas_opt_inplace"} \ {{}}

\* Expression trees: a leaf, neg of a tree, add and sub of two trees, mul of
\* a tree by one scalar or by two, and add(t, t) of one and the same
\* variable t.
(***************************************************************************)
(* local_dot_to_dot22                                                      *)
(***************************************************************************)
\* DimShuffle.__init__: an input axis left out of new_order must be
\* broadcastable.
DimShuffle_check(st, order, v) ==
  IF \E i \in 1..ndim(VarType(st, v)) :
       (i - 1) \notin Range(order) /\ ~VarType(st, v).bc[i]
  THEN "ValueError"
  ELSE "ok"

\* var.dimshuffle(*order) after the calls made so far (a.err is the
\* exception raised by one of them); Same stands for no dimshuffle at all.
Same == <<-2>>

dimshuffle(a, v, order) ==
  IF a.err # "ok" \/ order = Same THEN [store |-> a.store, v |-> v, err |-> a.err]
  ELSE IF DimShuffle_check(a.store, order, v) # "ok"
       THEN [store |-> a.store, v |-> v, err |-> DimShuffle_check(a.store, order, v)]
       ELSE [store |-> DimShuffle_make_node(a.store, order, v).store,
             v |-> DimShuffle_make_node(a.store, order, v).v, err |-> "ok"]

\* _dot22(x, y): Dot22.make_node with the exceptions it raises.
_dot22(a, x, y) ==
  IF a.err # "ok" THEN [store |-> a.store, v |-> 0, err |-> a.err]
  ELSE IF ~IsDense(VarType(a.store, x)) \/ ~IsDense(VarType(a.store, y))
       THEN [store |-> a.store, v |-> 0, err |-> "NotImplementedError"]
       ELSE IF Dot22_check(a.store, x, y) # "ok"
            THEN [store |-> a.store, v |-> 0, err |-> Dot22_check(a.store, x, y)]
            ELSE [store |-> Dot22_make_node(a.store, x, y).store,
                  v |-> Dot22_make_node(a.store, x, y).v, err |-> "ok"]

dot22_back(d, back) == dimshuffle(d, d.v, back)

dot22_of(xs, ys, back) == dot22_back(_dot22(ys, xs.v, ys.v), back)

dot22_on(xs, y, yorder, back) == dot22_of(xs, dimshuffle(xs, y, yorder), back)

\* _dot22(x.dimshuffle(xorder), y.dimshuffle(yorder)).dimshuffle(back)
dot22_shuffled(st, x, xorder, y, yorder, back) ==
  dot22_on(dimshuffle([store |-> st, err |-> "ok"], x, xorder), y, yorder, back)

\* local_dot_to_dot22(fgraph, node): v is the replacement of the output of
\* node, 0 when the rewriter returns None or False.
local_dot_to_dot22(st, node) ==
  LET x == st[node].inputs[1]
      y == st[node].inputs[2]
      tx == VarType(st, x)
      ty == VarType(st, y)
      none == [store |-> st, v |-> 0, err |-> "ok"]
  IN IF st[node].op # "Dot" THEN none
     ELSE IF ~IsDense(tx) \/ ~IsDense(ty) THEN none
     ELSE IF ty.dtype # tx.dtype THEN none
     ELSE IF ty.dtype \in BlasDtypes
          THEN IF ndim(tx) = 2 /\ ndim(ty) = 2
               THEN dot22_shuffled(st, x, Same, y, Same, Same)
               ELSE IF ndim(tx) = 2 /\ ndim(ty) = 1
               THEN dot22_shuffled(st, x, Same, y, <<0, -1>>, <<0>>)
               ELSE IF ndim(tx) = 1 /\ ndim(ty) = 2
               THEN dot22_shuffled(st, x, <<-1, 0>>, y, Same, <<1>>)
               ELSE IF ndim(tx) = 1 /\ ndim(ty) = 1
               THEN dot22_shuffled(st, x, <<-1, 0>>, y, <<0, -1>>, <<>>)
               ELSE none
          ELSE none

\* The input types of a Dot node: dense or sparse, of rank 0 to MaxLen.
DotDtypes == {"int8", "float32", "float64", "complex64"}

DotInputTypes ==
  {[dtype |-> dt, bc |-> [i \in 1..r |-> FALSE], dense |-> d] :
     dt \in DotDtypes, r \in 0..MaxLen, d \in BOOLEAN}

\* Dot.make_node: the output type of dot(x, y).
Dot_type(tx, ty) ==
  [dtype |-> upcast(tx.dtype, ty.dtype),
   bc |-> SubSeq(tx.bc, 1, Len(tx.bc) - 1)
          \o (IF Len(ty.bc) >= 2 THEN <<ty.bc[Len(ty.bc)]>> ELSE <<>>)]

\* The Apply objects of dot(x, y) for two graph inputs of types tx and ty.
DotStore(tx, ty) ==
  (1 :> NewApply("Input", FALSE, <<>>, <<>>, tx))
  @@ (2 :> NewApply("Input", FALSE, <<>>, <<>>, ty))
  @@ (3 :> NewApply("Dot", FALSE, <<>>, <<OutVar(1), OutVar(2)>>, Dot_type(tx, ty)))

(***************************************************************************)
(* The instance dictionaries of the BLAS ops                               *)
(***************************************************************************)
\* self.destroy_map = {0: [0]}, as the pairs <<output, destroyed input>>.
DestroysInput0 == "destroy_map" :> {<<0, 0>>}

\* Gemm.__init__(inplace): the __dict__ of the new op.
Gemm_init(inplace) ==
  IF inplace THEN ("inplace" :> inplace) @@ DestroysInput0 ELSE ("inplace" :> inplace)

\* Gemv.__init__(inplace)
Gemv_init(inplace) ==
  IF inplace THEN ("inplace" :> inplace) @@ DestroysInput0 ELSE ("inplace" :> inplace)

\* Ger.__init__(destructive)
Ger_init(destructive) ==
  IF destructive THEN ("destructive" :> destructive) @@ DestroysInput0
  ELSE ("destructive" :> destructive)

Without(d, key) == [k \in DOMAIN d \ {key} |-> d[k]]

\* Gemm.__getstate__: a copy of __dict__ without the setup code.
Gemm_getstate(self) == Without(self, "setup_z_Nz_Sz")

\* A __setstate__ that restores the saved attributes and nothing more.
Gemm_setstate_update_only(self, dct) == dct @@ self

\* Gemm.__setstate__(dct): __dict__ afterwards.
Gemm_setstate(self, dct) ==
  IF "destroy_map" \notin DOMAIN (dct @@ self) /\ (dct @@ self)["inplace"]
  THEN (dct @@ self) @@ DestroysInput0
  ELSE dct @@ self

\* The op classes with the name of their flag.
OpClasses == {<<"Gemm", "inplace">>, <<"Gemv", "inplace">>, <<"Ger", "destructive">>}

\* The states a pickle of a Gemm holds: __getstate__ of an op, which may
\* carry setup code, and the same without destroy_map (an older pickle).
GemmPickles ==
  {Gemm_getstate(Gemm_init(f) @@ IF setup THEN "setup_z_Nz_Sz" :> "code" ELSE <<>>) :
     f \in BOOLEAN, setup \in BOOLEAN}
  \cup {Without(Gemm_init(f), "destroy_map") : f \in BOOLEAN}

(***************************************************************************)
(* matrix_power: the expression it builds, as a tree over the matrix M     *)
(***************************************************************************)
None == <<"None">>

dot(a, b) == <<"dot", a, b>>

pinv(M) == <<"pinv", M>>

eye == <<"eye">>

\* matrix_power(M, n) down to the loop: the result of a shortcut, or the
\* locals at the head of the while loop.
matrix_power_head(M, n) ==
  LET M1 == IF n < 0 THEN pinv(M) ELSE M
      n1 == IF n < 0 THEN -n ELSE n
  IN IF n1 = 0 THEN [returned |-> TRUE, result |-> eye]
     ELSE IF n1 = 1 THEN [returned |-> TRUE, result |-> M1]
     ELSE IF n1 = 2 THEN [returned |-> TRUE, result |-> dot(M1, M1)]
     ELSE IF n1 = 3 THEN [returned |-> TRUE, result |-> dot(dot(M1, M1), M1)]
     ELSE [returned |-> FALSE, M |-> M1, n |-> n1, z |-> None, result |-> None, k |-> 0]

\* A loop body that never squares z.
matrix_power_body_no_square(l) ==
  [l EXCEPT !.z = l.M,
            !.n = l.n \div 2,
            !.result = IF l.n % 2 = 1
                       THEN IF l.result = None THEN l.M ELSE dot(l.result, l.M)
                       ELSE l.result,
            !.k = l.k + 1]

squared(l) == IF l.z = None THEN l.M ELSE dot(l.z, l.z)

\* One iteration of `while n > 0`; k counts the iterations.
matrix_power_body(l) ==
  [l EXCEPT !.z = squared(l),
            !.n = l.n \div 2,
            !.result = IF l.n % 2 = 1
                       THEN IF l.result = None THEN squared(l) ELSE dot(l.result, squared(l))
                       ELSE l.result,
            !.k = l.k + 1]

\* 2 x 2 integer matrices of determinant 1 or -1, whose inverse is integral.
PowerMatrices == {<<1, 1, 0, 1>>, <<0, 1, 1, 1>>, <<2, 1, 1, 1>>}

(***************************************************************************)
(* pkl_utils: the persistent ids of one dump.  An array is known by its    *)
(* id(); self is the PersistentSharedVariableID of the Pickler.            *)
(***************************************************************************)
\* A defaultdict(int) or a dict read with a default.
Get(d, key, default) == IF key \in DOMAIN d THEN d[key] ELSE default

Put(d, key, value) == (key :> value) @@ d

\* PersistentSharedVariableID(zip_file), as dump makes it; members are the
\* names zipadd has written to zip_file.
PersistentSharedVariableID_init ==
  [count |-> 0, seen |-> <<>>, name_counter |-> <<>>, ndarray_names |-> <<>>,
   allow_unnamed |-> TRUE, allow_duplicates |-> TRUE, members |-> <<>>,
   name |-> "", exc |-> "ok", rval |-> "None"]

\* PersistentNdarrayID._resolve_name
PersistentNdarrayID_resolve_name(self) ==
  [self EXCEPT !.name = "array_" \o ToString(self.count), !.count = self.count + 1]

\* PersistentSharedVariableID._resolve_name(obj) for the array obj.
_resolve_name(self, obj) ==
  IF obj \in DOMAIN self.ndarray_names
  THEN LET name == self.ndarray_names[obj]
           count == Get(self.name_counter, name, 0)
           counted == [self EXCEPT !.name_counter = Put(self.name_counter, name, count + 1)]
       IN IF count # 0
          THEN IF ~self.allow_duplicates THEN [counted EXCEPT !.exc = "ValueError"]
               ELSE [counted EXCEPT !.name = name \o "_" \o ToString(count + 1)]
          ELSE [counted EXCEPT !.name = name]
  ELSE PersistentNdarrayID_resolve_name(self)

\* zipadd(write_array, self.zip_file, name) and the entry of seen.
written(self, obj) ==
  IF self.exc # "ok" THEN self
  ELSE [self EXCEPT !.members = Append(self.members, self.name),
                    !.seen = Put(self.seen, obj, "ndarray." \o self.name)]

\* PersistentNdarrayID.__call__(obj)
PersistentNdarrayID_call(self, obj) ==
  IF self.exc # "ok" THEN self
  ELSE IF obj.kind = "ndarray"
  THEN IF obj.id \notin DOMAIN self.seen
       THEN [written(_resolve_name(self, obj.id), obj.id)
               EXCEPT !.rval = Get(written(_resolve_name(self, obj.id), obj.id).seen,
                                   obj.id, "None")]
       ELSE [self EXCEPT !.rval = self.seen[obj.id]]
  ELSE [self EXCEPT !.rval = "None"]

\* The head of PersistentSharedVariableID.__call__(obj): the ValueError for
\* the name `pkl` is made and not raised.
shared_variable_seen(self, obj) ==
  IF obj.kind = "SharedVariable"
  THEN IF obj.name # ""
       THEN [self EXCEPT !.ndarray_names = Put(self.ndarray_names, obj.storage, obj.name)]
       ELSE IF ~self.allow_unnamed THEN [self EXCEPT !.exc = "ValueError"]
       ELSE self
  ELSE self

\* PersistentSharedVariableID.__call__(obj)
PersistentSharedVariableID_call(self, obj) ==
  PersistentNdarrayID_call(shared_variable_seen(self, obj), obj)

ndarray(a) == [kind |-> "ndarray", id |-> a]

SharedVariable(name, a) == [kind |-> "SharedVariable", name |-> name, storage |-> a]

\* The objects of a dump: at place i a shared variable that owns array i,
\* named or not, or one of the arrays on its own.
SharedNames == {"", "x", "x_2", "pkl"}

Dumped ==
  UNION {[1..n -> {SharedVariable(nm, 0) : nm \in SharedNames}
                   \cup {ndarray(a) : a \in 1..MaxLen}] : n \in 1..MaxLen}

\* The objects the Pickler hands to persistent_id, in order: a shared
\* variable, then the array of its container.
RECURSIVE Presented(_, _)
Presented(objs, i) ==
  IF i > Len(objs) THEN <<>>
  ELSE (IF objs[i].kind = "SharedVariable"
        THEN <<SharedVariable(objs[i].name, i), ndarray(i)>>
        ELSE <<objs[i]>>) \o Presented(objs, i + 1)

TreeLeaves == {<<"Z">>, <<"dot">>, <<"I">>, <<"W">>}

Grown(S) ==
  S \cup {<<op, t>> : op \in {"neg", "mul1", "mul2", "self"}, t \in S}
    \cup {<<op, t, u>> : op \in {"add", "sub"}, t \in S, u \in S}

Trees == Grown(Grown(TreeLeaves))

\* The variable of a tree, built in store st as a client would.
RECURSIVE MakeTree(_, _)
MadeOf(op, a, b) == Elemwise_make_node(b.store, op, <<a.v, b.v>>)

MadeOfOne(op, a) ==
  Elemwise_make_node(a.store, IF op = "neg" THEN "neg" ELSE IF op = "self" THEN "add" ELSE "mul",
                     CASE op = "mul1" -> <<alpha, a.v>>
                       [] op = "mul2" -> <<alpha, a.v, beta>>
                       [] op = "self" -> <<a.v, a.v>>
                       [] OTHER -> <<a.v>>)

MadeOfTwo(op, a, u) == MadeOf(op, a, MakeTree(a.store, u))

MakeTree(st, t) ==
  CASE t = <<"Z">> -> [store |-> st, v |-> Z]
    [] t = <<"I">> -> [store |-> st, v |-> Imat]
    [] t = <<"W">> -> [store |-> st, v |-> W]
    [] t = <<"dot">> -> Dot22_make_node(st, X, Y)
    [] Len(t) = 2 -> MadeOfOne(t[1], MakeTree(st, t[2]))
    [] OTHER -> MadeOfTwo(t[1], MakeTree(st, t[2]), t[3])

\* FunctionGraph(inputs, [root]) over the store of a tree.
TreeGraph(e) ==
  import_var([store |-> e.store, apply_nodes |-> {}, clients |-> [v \in Leaves |-> {}],
              outputs |-> <<e.v>>, imported |-> <<>>, hist |-> <<>>], e.v)

\* The state holds the graph g, whose output is root.
GraphIs(g, root) ==
  /\ store = g.store
  /\ apply_nodes = g.apply_nodes
  /\ clients = g.clients
  /\ outputs = g.outputs
  /\ acc = root

NoGraph(st) ==
  /\ store = st
  /\ apply_nodes = {}
  /\ clients = [v \in Leaves |-> {}]
  /\ outputs = <<>>
  /\ acc = 0

\* _gemm_canonicalize(fgraph, root, 1, [], 0) on the graph of the expression
\* e, and the factored list of c, as _gemm_from_node2 computes them.
Canonicalized(e) ==
  _gemm_canonicalize(TreeGraph(e), [store |-> e.store, rval |-> <<>>, err |-> "ok",
                                    opened |-> {}], e.v, Num(1), 0)

Factored(c) == _factor_canonicalized(c.store, c.rval)

\* The state before a call on the graph of the expression e, with root as
\* the accumulated variable.
TreeCall(e, root, args) ==
  /\ GraphIs(TreeGraph(e), root)
  /\ call = [fn |-> "_gemm_canonicalize", args |-> args, rval |-> <<>>]

FactoredCall(e, c, f) ==
  /\ c.err = "ok"
  /\ Len(c.rval) > 1
  /\ GraphIs([TreeGraph(e) EXCEPT !.store = f.store], e.v)
  /\ call = [fn |-> "_gemm_from_factored_list", args |-> f.lst, rval |-> <<>>]

FactoredCallOf(e, c) == FactoredCall(e, c, Factored(c))

InitCall ==
  /\ features = {}
  /\ built = <<>>
  /\ pc = "call"
  /\ runs = 0
  /\ did_something = FALSE
  /\ nb_iter = 0
  /\ nb_replacement = 0
  /\ nb_replacement_didn_t_remove = 0
  /\ nb_inconsistency_make = 0
  /\ nb_inconsistency_replace = 0
  /\ warned = FALSE
  /\ nodelist = <<>>
  /\ q = <<>>
  /\ last = NoLast
  /\ pass_replacements = 0
  /\ eq = NoEq
  /\ history = <<>>
  /\ stack_trace = {}
  /\ \/ \E t \in Trees :
          TreeCall(MakeTree(EmptyStore, t), MakeTree(EmptyStore, t).v, t)
     \/ \E t \in Trees :
          /\ t[1] = "self"
          /\ TreeCall(MakeTree(EmptyStore, t), MakeTree(EmptyStore, t[2]).v, t)
     \/ \E tx \in DotInputTypes, ty \in DotInputTypes :
          /\ NoGraph(DotStore(tx, ty))
          /\ call = [fn |-> "local_dot_to_dot22", args |-> <<tx, ty>>, rval |-> <<>>]
     \/ \E t \in Trees :
          FactoredCallOf(MakeTree(EmptyStore, t), Canonicalized(MakeTree(EmptyStore, t)))
     \/ /\ NoGraph(EmptyStore)
        /\ \E lst \in CanonLists :
             call = [fn |-> "_factor_canonicalized", args |-> lst, rval |-> <<>>]
     \/ /\ NoGraph(EmptyStore)
        /\ \E c \in OpClasses, f \in BOOLEAN :
             call = [fn |-> "__init__", args |-> <<c[1], f>>, rval |-> <<>>]
     \/ /\ NoGraph(EmptyStore)
        /\ \E dct \in GemmPickles :
             call = [fn |-> "__setstate__", args |-> dct, rval |-> <<>>]
     \/ /\ NoGraph(EmptyStore)
        /\ \E m \in PowerMatrices, n \in -MaxPower..MaxPower :
             call = [fn |-> "matrix_power", args |-> <<m, n>>, rval |-> <<>>]
     \/ /\ NoGraph(EmptyStore)
        /\ \E objs \in Dumped :
             call = [fn |-> "dump", args |-> Presented(objs, 1),
                     rval |-> [self |-> PersistentSharedVariableID_init, ids |-> <<>>]]
     \/ /\ NoGraph(ViewStore)
        /\ \E inplace \in BOOLEAN, ins \in GemmArgs :
             call = [fn |-> "make_node", args |-> <<inplace, ins>>, rval |-> "none"]
     \/ /\ NoGraph(EmptyStore)
        /\ \E inp \in GemmPerformArgs :
             call = [fn |-> "Gemm.perform", args |-> inp, rval |-> <<>>]
     \/ /\ NoGraph(EmptyStore)
        /\ \E inp \in GerPerformArgs :
             call = [fn |-> "Ger.perform", args |-> inp, rval |-> <<>>]
     \/ /\ NoGraph(EmptyStore)
        /\ \E db \in Registries, tags \in QueryTags :
             call = [fn |-> "query", args |-> <<db, tags>>, rval |-> <<>>]

not_called_eq ==
  <<history, stack_trace, apply_nodes, clients, outputs, features, built, acc, runs, gemm_locals,
    warned, q, last>>

not_called ==
  <<eq, history, stack_trace, apply_nodes, clients, outputs, features, built, acc,
    runs, gemm_locals,
    warned, q, last>>

Returned(f) == store' = f.store /\ call' = [call EXCEPT !.rval = f.lst]

CallFactor ==
  /\ pc = "call"
  /\ call.fn = "_factor_canonicalized"
  /\ Returned(_factor_canonicalized(store, call.args))
  /\ pc' = "return"
  /\ UNCHANGED not_called

\* _gemm_canonicalize(fgraph, root, 1, [], 0)
CallCanonicalize ==
  /\ pc = "call"
  /\ call.fn = "_gemm_canonicalize"
  /\ LET c == _gemm_canonicalize(G, [store |-> store, rval |-> <<>>, err |-> "ok",
                                     opened |-> {}], acc, Num(1), 0)
     IN  /\ store' = c.store
         /\ call' = [call EXCEPT !.rval = [lst |-> c.rval, err |-> c.err,
                                           opened |-> c.opened]]
  /\ pc' = "return"
  /\ UNCHANGED not_called

CallFromFactoredList ==
  /\ pc = "call"
  /\ call.fn = "_gemm_from_factored_list"
  /\ LET r == _gemm_from_factored_list(store, call.args)
     IN  /\ store' = r.store
         /\ call' = [call EXCEPT !.rval = [rval |-> r.rval, old |-> r.old, err |-> r.err]]
  /\ pc' = "return"
  /\ UNCHANGED not_called

CallDotToDot22 ==
  /\ pc = "call"
  /\ call.fn = "local_dot_to_dot22"
  /\ store' = local_dot_to_dot22(store, 3).store
  /\ call' = [call EXCEPT !.rval = [rval |-> local_dot_to_dot22(store, 3).v,
                                      err |-> local_dot_to_dot22(store, 3).err]]
  /\ pc' = "return"
  /\ UNCHANGED not_called

CallMakeNode ==
  /\ pc = "call"
  /\ call.fn = "make_node"
  /\ call' = [call EXCEPT !.rval = Gemm_check(store, call.args[1], call.args[2])]
  /\ store' = IF Gemm_check(store, call.args[1], call.args[2]) = "ok"
              THEN Gemm_make_node(store, call.args[1], call.args[2]).store
              ELSE store
  /\ pc' = "return"
  /\ UNCHANGED not_called

\* cls(flag): rval is the __dict__ of the new op.
CallInit ==
  /\ pc = "call"
  /\ call.fn = "__init__"
  /\ call' = [call EXCEPT !.rval =
                CASE call.args[1] = "Gemm" -> Gemm_init(call.args[2])
                  [] call.args[1] = "Gemv" -> Gemv_init(call.args[2])
                  [] OTHER -> Ger_init(call.args[2])]
  /\ pc' = "return"
  /\ UNCHANGED <<store, not_called>>

\* Unpickling a Gemm: __setstate__(dct) on a new object, whose __dict__ is
\* empty; rval is its __dict__ afterwards.
CallSetState ==
  /\ pc = "call"
  /\ call.fn = "__setstate__"
  /\ call' = [call EXCEPT !.rval = Gemm_setstate(<<>>, call.args)]
  /\ pc' = "return"
  /\ UNCHANGED <<store, not_called>>

\* matrix_power(M, n) up to the while loop.
CallMatrixPower ==
  /\ pc = "call"
  /\ call.fn = "matrix_power"
  /\ call' = [call EXCEPT !.rval = matrix_power_head(<<"M">>, call.args[2])]
  /\ pc' = IF matrix_power_head(<<"M">>, call.args[2]).returned
           THEN "return" ELSE "matrix_power_while"
  /\ UNCHANGED <<store, not_called>>

\* while n > 0: one iteration, or the return of result.
MatrixPowerWhile ==
  /\ pc = "matrix_power_while"
  /\ IF call.rval.n > 0
     THEN call' = [call EXCEPT !.rval = matrix_power_body(call.rval)] /\ pc' = pc
     ELSE call' = [call EXCEPT !.rval.returned = TRUE] /\ pc' = "return"
  /\ UNCHANGED <<store, not_called>>

\* p.dump(obj): the Pickler calls persistent_id on the next object; ids
\* keeps what each call returned.  After the last object `pkl` is written.
CallPersistentId ==
  /\ pc = "call"
  /\ call.fn = "dump"
  /\ IF Len(call.rval.ids) < Len(call.args)
     THEN /\ call' = [call EXCEPT
                        !.rval.self = PersistentSharedVariableID_call(
                                        call.rval.self, call.args[Len(call.rval.ids) + 1]),
                        !.rval.ids = Append(call.rval.ids,
                                       PersistentSharedVariableID_call(
                                         call.rval.self,
                                         call.args[Len(call.rval.ids) + 1]).rval)]
          /\ pc' = pc
     ELSE /\ call' = [call EXCEPT !.rval.self.members = Append(@, "pkl")]
          /\ pc' = "return"
  /\ UNCHANGED <<store, not_called>>

CallQuery ==
  /\ pc = "call"
  /\ call.fn = "query"
  /\ call' = [call EXCEPT !.rval = query(call.args[1], call.args[2])]
  /\ pc' = "return"
  /\ UNCHANGED <<store, not_called>>

CallGemmPerform ==
  /\ pc = "call"
  /\ call.fn = "Gemm.perform"
  /\ call' = [call EXCEPT !.rval =
                Gemm_perform_any_shape(call.args[1], call.args[2], call.args[3],
                                       call.args[4], call.args[5], call.args[6],
                                       call.args[7])]
  /\ pc' = "return"
  /\ UNCHANGED <<store, not_called>>

CallGerPerform ==
  /\ pc = "call"
  /\ call.fn = "Ger.perform"
  /\ call' = [call EXCEPT !.rval =
                Ger_perform(call.args[1], call.args[2], call.args[3], call.args[4],
                            call.args[5])]
  /\ pc' = "return"
  /\ UNCHANGED <<store, not_called>>

NextCall ==
  \/ CallCanonicalize
  \/ CallFactor
  \/ CallFromFactoredList
  \/ CallMakeNode
  \/ CallDotToDot22
  \/ CallPersistentId
  \/ CallMatrixPower
  \/ MatrixPowerWhile
  \/ CallInit
  \/ CallSetState
  \/ CallQuery
  \/ CallGemmPerform
  \/ CallGerPerform

SpecCall == InitCall /\ [][NextCall]_vars

(***************************************************************************)
(* EquilibriumGraphRewriter(rules, max_use_ratio) at work on a graph.  The *)
(* graph is the list of the ops of its Applies; a rule rewrites an Apply   *)
(* of one op into an Apply of another op.                                  *)
(***************************************************************************)
\* max_use_ratio of the BLAS equilibrium rewriter.
blas_max_use_ratio == 5

RuleNames == {"AtoB", "BtoA", "AtoC", "BtoC"}

\* The op a rule tracks and the op of its replacement.
RuleFrom(r) == IF r \in {"AtoB", "AtoC"} THEN "A" ELSE "B"

RuleTo(r) == CASE r = "AtoB" -> "B" [] r = "BtoA" -> "A" [] OTHER -> "C"

RuleLists ==
  {rs \in UNION {[1..n -> RuleNames] : n \in 1..MaxRules} :
     \A i, j \in 1..Len(rs) : i # j => rs[i] # rs[j]}

OpLists == UNION {[1..n -> {"A", "B", "C"}] : n \in 1..MaxNodes}

\* The last rule of the list, from index k on, that matches op; 0 when
\* none does.
LastMatch(rules, op, k) ==
  IF \A i \in k..Len(rules) : RuleFrom(rules[i]) # op THEN 0
  ELSE CHOOSE i \in k..Len(rules) :
         /\ RuleFrom(rules[i]) = op
         /\ \A j \in (i + 1)..Len(rules) : RuleFrom(rules[j]) # op

\* The first rule of the list, from index k on, that matches op; 0 when
\* none does.
RECURSIVE FirstMatch(_, _, _)
FirstMatch(rules, op, k) ==
  IF k > Len(rules) THEN 0
  ELSE IF RuleFrom(rules[k]) = op THEN k
  ELSE FirstMatch(rules, op, k + 1)

\* A guard that never trips.
EqOveruse_never(count, max_use) == FALSE

\* The overuse guard: a rule was applied more than max_use times.
EqOveruse(count, max_use) == count > max_use

\* One more application counted; beyond max_use + 1 the guard cannot tell
\* counts apart.
Counted(count, max_use) == IF count > max_use THEN count ELSE count + 1

\* The driver starts: max_use = max_use_ratio * graph size.
EqBegin ==
  /\ eq.state = "none"
  /\ eq.rules # <<>>
  /\ eq' = [eq EXCEPT !.state = "Scanning",
                      !.max_use = eq.max_use_ratio * Len(eq.nodes),
                      !.count = [r \in Range(eq.rules) |-> 0],
                      !.pos = 1,
                      !.changed = FALSE]
  /\ UNCHANGED <<call, store, pc, not_called_eq>>

\* The next node of the pass: the rules are tried in the order of the list.
EqScan ==
  /\ eq.state = "Scanning"
  /\ eq.pos <= Len(eq.nodes)
  /\ eq' = IF FirstMatch(eq.rules, eq.nodes[eq.pos], 1) = 0
           THEN [eq EXCEPT !.pos = eq.pos + 1, !.applied = "none"]
           ELSE [eq EXCEPT !.state = "Applying",
                           !.applied = eq.rules[FirstMatch(eq.rules, eq.nodes[eq.pos], 1)]]
  /\ UNCHANGED <<call, store, pc, not_called_eq>>

\* The replacement of the rule that matched is committed and counted.
EqApply ==
  /\ eq.state = "Applying"
  /\ eq' = [eq EXCEPT
              !.nodes[eq.pos] = RuleTo(eq.applied),
              !.count[eq.applied] = Counted(eq.count[eq.applied], eq.max_use),
              !.changed = TRUE,
              !.pos = eq.pos + 1,
              !.state = IF EqOveruse(Counted(eq.count[eq.applied], eq.max_use),
                                     eq.max_use)
                        THEN "Aborted" ELSE "Scanning"]
  /\ UNCHANGED <<call, store, pc, not_called_eq>>

\* The pass is over: another pass if it changed something.
EqPassEnd ==
  /\ eq.state = "Scanning"
  /\ eq.pos > Len(eq.nodes)
  /\ eq' = IF eq.changed
           THEN [eq EXCEPT !.pos = 1, !.changed = FALSE, !.applied = "none"]
           ELSE [eq EXCEPT !.state = "Converged"]
  /\ UNCHANGED <<call, store, pc, not_called_eq>>

InitEq ==
  /\ store = EmptyStore
  /\ apply_nodes = {}
  /\ clients = [v \in Leaves |-> {}]
  /\ outputs = <<>>
  /\ features = {}
  /\ built = <<>>
  /\ acc = 0
  /\ pc = "equilibrium"
  /\ runs = 0
  /\ did_something = FALSE
  /\ nb_iter = 0
  /\ nb_replacement = 0
  /\ nb_replacement_didn_t_remove = 0
  /\ nb_inconsistency_make = 0
  /\ nb_inconsistency_replace = 0
  /\ warned = FALSE
  /\ nodelist = <<>>
  /\ q = <<>>
  /\ last = NoLast
  /\ pass_replacements = 0
  /\ call = NoCall
  /\ history = <<>>
  /\ stack_trace = {}
  /\ \E rules \in RuleLists, nodes \in OpLists, ratio \in {1, blas_max_use_ratio} :
       eq = [NoEq EXCEPT !.rules = rules, !.nodes = nodes, !.max_use_ratio = ratio]

NextEq == EqBegin \/ EqScan \/ EqApply \/ EqPassEnd

\* The driver runs on: a step that can be taken is taken.
SpecEq == InitEq /\ [][NextEq]_vars /\ WF_vars(NextEq)

(***************************************************************************)
(* Properties                                                              *)
(***************************************************************************)
ClientsOf(cl, v) == IF v \in DOMAIN cl THEN cl[v] ELSE {}

\* The step leaves the node set, every client list, the outputs and the
\* inputs of every node of the graph as they were.
SameGraph ==
  /\ apply_nodes' = apply_nodes
  /\ outputs' = outputs
  /\ \A v \in (DOMAIN clients) \cup (DOMAIN clients') :
       ClientsOf(clients', v) = ClientsOf(clients, v)
  /\ \A n \in apply_nodes : store'[n] = store[n]

\* The step is the visit of a node by GemmOptimizer or by blas_opt_inplace.
GemmBody ==
  /\ pc = "gemm_for"
  /\ nodelist # <<>>
  /\ IsCandidate(Head(nodelist))
  /\ Head(nodelist) \in apply_nodes

InplaceBody ==
  /\ pc = "inplace"
  /\ q # <<>>
  /\ Head(q) \in apply_nodes
  /\ local_inplace_gemm_applies(Head(q))

Uses(v) ==
  UNION {{<<n, i>> : i \in {k \in 1..Len(store[n].inputs) : store[n].inputs[k] = v}} :
         n \in apply_nodes}

InputsOfGraph ==
  UNION {Range(store[n].inputs) : n \in apply_nodes}

\* C2 (graph validity): the graph is acyclic and clients[v] is exactly the
\* set of (Apply, i) of the graph with Apply.inputs[i] = v, for every
\* variable v.
C2_GraphValid ==
  /\ Acyclic(G)
  /\ \A v \in (DOMAIN clients) \cup InputsOfGraph \cup Range(outputs) :
       ClientsOf(clients, v) = Uses(v)

C2_Witness ==
  /\ last.by = "blas_opt_inplace" /\ last.stage = "replace" /\ last.exc = "ok"
  /\ nb_replacement >= 1

\* C3 (value preservation): the replacement that GemmOptimizer commits
\* computes the value of the root it replaces.
C3_ValuePreserved ==
  (last.by = "GemmOptimizer" /\ last.exc = "ok") => last.vnew = last.vold

ExampleBuilt == built = <<<<"bZ", "add">>, <<"adot", "add">>>>

\* C4 (the example): once GemmOptimizer has run on beta * Z + alpha *
\* dot22(X, Y), the output of the graph is gemm(Z, alpha, X, Y, beta) itself,
\* and with Z = [[1,2],[3,4]], X = I, Y = [[5,6],[7,8]], alpha = 2, beta = 1
\* it computes [[11,14],[17,20]].
C4_Example ==
  (ExampleBuilt /\ pc = "idle" /\ nb_iter > 0)
  => /\ runs = 1 => nb_replacement = 1
     /\ Len(outputs) = 1
     /\ Owner(outputs[1]) \in apply_nodes
     /\ store[Owner(outputs[1])].op = "Gemm"
     /\ store[Owner(outputs[1])].inputs = <<Z, alpha, X, Y, beta>>
     /\ Eval(store, outputs[1], EnvExample) = <<11, 14, 17, 20>>

C4_Witness == ExampleBuilt /\ pc = "idle" /\ nb_iter > 0 /\ runs = 1

\* A call of fn has returned.
IsReturn(fn) == pc = "return" /\ call.fn = fn

TupleIdx(lst) == {k \in 1..Len(lst) : lst[k].tup}

\* The number a scale stands for, under the input values Env.
ScaleValue(s) == IF s[1] = 0 THEN s[2] ELSE Eval(store, s[2], Env)[1]

\* The sum of the scales of the tuples of lst, from index k on, whose term
\* is M.
RECURSIVE SumScales(_, _, _)
SumScales(lst, M, k) ==
  IF k > Len(lst) THEN 0
  ELSE (IF lst[k].tup /\ lst[k].M = M THEN ScaleValue(lst[k].s) ELSE 0)
       + SumScales(lst, M, k + 1)

\* C5 (term deduplication): in the list _factor_canonicalized returns no two
\* (scale, term) pairs hold the same term, the scale of each pair is the sum
\* of the scales of all the pairs of the input with that term, no term is
\* lost and the bare entries are kept as they were.
C5_Deduplicated ==
  IsReturn("_factor_canonicalized")
  => /\ \A i, j \in TupleIdx(call.rval) : i # j => call.rval[i].M # call.rval[j].M
     /\ \A i \in TupleIdx(call.rval) :
          ScaleValue(call.rval[i].s) = SumScales(call.args, call.rval[i].M, 1)
     /\ {call.rval[k].M : k \in TupleIdx(call.rval)}
          = {call.args[k].M : k \in TupleIdx(call.args)}
     /\ SelectSeq(call.rval, LAMBDA e : ~e.tup) = SelectSeq(call.args, LAMBDA e : ~e.tup)

C5_Witness ==
  /\ IsReturn("_factor_canonicalized")
  /\ call.args = <<Tup(Num(3), Z), Tup(Num(-1), Z)>>
  /\ call.rval = <<Tup(Num(2), Z)>>

SameDtypeAndRank(t1, t2) == t1.dtype = t2.dtype /\ Len(t1.bc) = Len(t2.bc)

\* C6 (type preservation): a replacement handed to
\* replace_all_validate_remove has the dtype and the rank of the output it
\* replaces, and a GEMM candidate that GemmOptimizer gave up for its type is
\* one whose type is not in the class of the root's type.
C6_TypePreserved ==
  /\ last.stage = "replace" => SameDtypeAndRank(last.tnew, last.told)
  /\ last.stage = "type" => ~in_same_class(last.tnew, last.told) /\ last.exc = "none"

C6_Witness ==
  /\ last.by = "GemmOptimizer"
  /\ last.stage = "type"
  /\ last.tnew.dtype # last.told.dtype

\* The view roots of z meet those of x or those of y.
Aliased(ins) ==
  \/ view_roots(store, ins[1]) \cap view_roots(store, ins[3]) # {}
  \/ view_roots(store, ins[1]) \cap view_roots(store, ins[4]) # {}

StaleReaders(n, z) ==
  {c \in UNION {{<<m, i>> : i \in 1..Len(store[m].inputs)} : m \in apply_nodes} :
     /\ c # <<n, 1>>
     /\ view_roots(store, store[c[1]].inputs[c[2]]) \cap view_roots(store, z) # {}
     /\ \/ c[1] = n
        \/ n \in Ancestors(store, c[1])
        \/ (store[c[1]].op = "Gemm" /\ store[c[1]].inplace /\ c[2] = 1)}

\* No destructive Gemm of the graph has a consumer left with a stale value.
NoHazard ==
  \A n \in apply_nodes :
    (store[n].op = "Gemm" /\ store[n].inplace)
    => StaleReaders(n, store[n].inputs[1]) = {}

\* C8 (aliasing rejection): no graph holds a destructive Gemm whose
\* destroyed input has another consumer that needs the unmodified value,
\* and the attempt to make the Gemm at the head of the queue destructive
\* while there is such a consumer raises InconsistencyError and leaves the
\* graph as it was.
C8_AliasingRejected ==
  [][/\ NoHazard'
     /\ (InplaceBody /\ StaleReaders(Head(q), store[Head(q)].inputs[1]) # {})
        => (last'.exc = "InconsistencyError" /\ SameGraph)]_vars

C8_Witness ==
  last.by = "blas_opt_inplace" /\ last.stage = "replace" /\ last.exc = "InconsistencyError"

\* C9 (the driver loop): a pass of GemmOptimizer.apply begins only as the
\* first one or after a pass that committed a replacement, it walks the
\* graph in reverse topological order, and apply returns only after a pass
\* in which no replace_all_validate_remove call succeeded.
C9_RepeatWhileReplaced ==
  [][/\ (pc = "gemm_while" /\ pc' = "gemm_for")
        => /\ nb_iter = 0 \/ pass_replacements > 0
           /\ nodelist' = Reverse(io_toposort(G))
     /\ (pc = "gemm_while" /\ pc' = "idle")
        => nb_iter > 0 /\ pass_replacements = 0]_vars

C9_Witness ==
  /\ pc = "idle"
  /\ nb_iter = 1
  /\ nb_replacement = 0
  /\ nb_inconsistency_replace + nb_replacement_didn_t_remove > 0

OutsideClients(root, v) ==
  {c \in ClientsOf(clients, v) : c[1] \notin Ancestors(store, root) \cup {root}}

\* C11 as stated (a Dot22 with another client makes the attempt fail): a
\* replace call of GemmOptimizer on a candidate whose fused Dot22 has more
\* than one client does not succeed.
C11_OtherClientFails ==
  [][(GemmBody /\ last'.stage = "replace"
      /\ Cardinality(ClientsOf(clients, last'.old)) > 1)
     => last'.exc # "ok"]_vars

\* C11 (the fused Dot22 is removed, amended): after a replace call of
\* GemmOptimizer that succeeded the Dot22 it fused is no node of the graph,
\* and when that Dot22 has a client outside the expression being replaced
\* the call does not succeed: it raises ReplacementDidNotRemoveError, or
\* InconsistencyError when the validation fails first.
C11_FusedDotRemoved ==
  [][(GemmBody /\ last'.stage = "replace")
     => /\ last'.exc = "ok" => Owner(last'.old) \notin apply_nodes'
        /\ OutsideClients(Head(nodelist), last'.old) # {}
           => last'.exc \in {"ReplacementDidNotRemoveError", "InconsistencyError"}]_vars

C11_Witness ==
  /\ last.by = "GemmOptimizer"
  /\ last.exc = "ReplacementDidNotRemoveError"
  /\ Owner(last.old) \in apply_nodes
  /\ store[Owner(last.old)].op = "Dot22"

EqDone == eq.state \in {"Converged", "Aborted"}

\* Some rule of the list matches some node of the graph.
EqSomeMatch == \E i \in 1..Len(eq.nodes) : FirstMatch(eq.rules, eq.nodes[i], 1) # 0

\* C12 (equilibrium termination): the driver always ends, converged or
\* aborted; it is converged only when no rule matches any node, aborted only
\* when a rule was applied more than max_use_ratio * graph size times; and
\* with the rules A -> B, B -> A on a graph that holds an A or a B it ends
\* aborted.
C12_EquilibriumTerminates ==
  /\ <>EqDone
  /\ [](eq.state = "Converged" => ~EqSomeMatch)
  /\ [](eq.state = "Aborted"
        => \E r \in Range(eq.rules) :
             eq.count[r] > eq.max_use_ratio * Len(eq.nodes))
  /\ ((eq.rules \in {<<"AtoB", "BtoA">>, <<"BtoA", "AtoB">>} /\ EqSomeMatch)
      => <>(eq.state = "Aborted"))

C12_Witness ==
  /\ eq.state = "Aborted"
  /\ eq.rules = <<"AtoB", "BtoA">>
  /\ eq.max_use_ratio = blas_max_use_ratio
  /\ Len(eq.nodes) = 2

\* GemmOptimizer.apply is at work right after a GemmOptimizer.apply that
\* has returned.
SecondGemmRun ==
  /\ Len(history) >= 2
  /\ history[Len(history)] = "GemmOptimizer"
  /\ history[Len(history) - 1] = "GemmOptimizer"
  /\ pc \in {"gemm_while", "gemm_for"}

\* C13 (idempotence at convergence): a run of GemmOptimizer.apply that
\* follows a run that has returned commits no replacement, leaves the graph
\* as it is, and returns after exactly one pass with nb_replacement = 0.
C13_Idempotent ==
  [][SecondGemmRun
     => /\ GemmBody => (last'.exc # "ok" /\ SameGraph)
        /\ nb_replacement' = 0
        /\ apply_nodes' = apply_nodes /\ clients' = clients /\ outputs' = outputs
        /\ pc' = "idle" => nb_iter = 1]_vars

C13_Witness ==
  /\ history = <<"GemmOptimizer", "GemmOptimizer">>
  /\ pc = "idle"
  /\ nb_iter = 1
  /\ nb_replacement = 0
  /\ \E n \in apply_nodes : store[n].op = "Gemm" /\ ~store[n].inplace

\* The names of a list of registry entries.
EntryNames(lst) == [i \in DOMAIN lst |-> lst[i].name]

\* C14 (registry query): a query returns exactly the registered rewriters
\* that carry a requested tag, each once, by ascending position.  On
\* blas_optdb, 'fast_run' gives local_dot_to_dot22, gemm_optimizer,
\* local_dot22_to_dot22scalar, local_gemm_to_gemv and 'fast_compile' gives
\* local_dot_to_dot22 alone; in optdb InplaceBlasOpt comes after BlasOpt.
C14_QueryOrdered ==
  IsReturn("query") =>
    LET db == call.args[1]
        tags == call.args[2]
        r == call.rval
        carrying == {k \in DOMAIN db : db[k].tags \cap tags # {}}
    IN  /\ {r[i] : i \in DOMAIN r} = {db[k] : k \in carrying}
        /\ Len(r) = Cardinality(carrying)
        /\ \A i, j \in DOMAIN r : i < j => r[i].position < r[j].position
        /\ (db = blas_optdb /\ tags = {"fast_run"})
             => EntryNames(r) = <<"local_dot_to_dot22", "gemm_optimizer",
                                  "local_dot22_to_dot22scalar", "local_gemm_to_gemv">>
        /\ (db = blas_optdb /\ tags = {"fast_compile"})
             => EntryNames(r) = <<"local_dot_to_dot22">>
        /\ (db = optdb /\ "fast_run" \in tags)
             => EntryNames(r) = <<"BlasOpt", "InplaceBlasOpt">>

C14_Witness ==
  /\ IsReturn("query")
  /\ call.args = <<blas_optdb, {"fast_run"}>>
  /\ Len(call.rval) = 4
  /\ call.rval[3].name = "local_dot22_to_dot22scalar"

\* The rules of the driver that match the node under visit, by their index.
Matching == {k \in DOMAIN eq.rules : RuleFrom(eq.rules[k]) = eq.nodes[eq.pos]}

\* C15 (tie-break): the replacement committed on a node comes from the
\* first rule, in the order of the driver's list, that matches it; that
\* rule alone is counted, and the visit moves on to the next node without
\* applying a later rule to the node.
C15_FirstMatchWins ==
  [][(eq.state = "Applying" /\ eq'.state # "Applying")
     => /\ Matching # {}
        /\ eq.applied = eq.rules[MinOf(Matching)]
        /\ eq'.nodes = [eq.nodes EXCEPT ![eq.pos] = RuleTo(eq.rules[MinOf(Matching)])]
        /\ eq'.count = [eq.count EXCEPT ![eq.applied] = @ + 1]
        /\ eq'.pos = eq.pos + 1]_vars

C15_Witness ==
  /\ eq.rules = <<"AtoC", "AtoB">>
  /\ eq.state = "Scanning"
  /\ eq.pos = 2
  /\ eq.applied = "AtoC"
  /\ eq.nodes[1] = "C"
  /\ eq.count = [r \in {"AtoC", "AtoB"} |-> IF r = "AtoC" THEN 1 ELSE 0]

C17_TraceCopied ==
  [][((GemmBody \/ InplaceBody) /\ last'.exc = "ok"
      /\ OutVar(last'.node) \in stack_trace)
     => last'.new \in stack_trace']_vars

\* The part of C17 that the code keeps: the replacements of the inplace
\* rewriter carry the trace.
C17_Witness ==
  /\ last.by = "blas_opt_inplace"
  /\ last.exc = "ok"
  /\ last.new \in stack_trace

\* b * z + a * dot(x, y), z broadcast to the shape of the product.
GemmValue(zshape, z, a, x, y, b) ==
  IF zshape = <<>> THEN <<b * z[1] + a * (x[1] * y[1] + x[2] * y[2])>>
  ELSE [i \in 1..4 |-> b * (IF zshape = <<1, 1>> THEN z[1] ELSE z[i]) + a * Dot(x, y)[i]]

\* C18 (what Gemm.perform stores): for every z, x, y and all scalars a and
\* b, the output of Gemm.perform holds b * z + a * dot(x, y), in every
\* branch of the code.
C18_PerformValue ==
  IsReturn("Gemm.perform")
  => call.rval.out = GemmValue(call.args[2], call.args[3], call.args[4],
                               call.args[5], call.args[6], call.args[7])

\* A call through the branch b == 0, a == -1 on matrices, which stores
\* -dot(x, y).
C18_Witness ==
  /\ IsReturn("Gemm.perform")
  /\ call.args[2] = <<2, 2>>
  /\ call.args[4] = -1
  /\ call.args[7] = 0
  /\ call.rval.out = <<0, -1, -1, -5>>

\* C19 (the non-destructive variants): after Gemm(inplace=False).perform the
\* input z holds what it held before the call, and after
\* Ger(destructive=False).perform the input A does.
C19_TargetUnchanged ==
  /\ (IsReturn("Gemm.perform") /\ ~call.args[1]) => call.rval.z = call.args[3]
  /\ (IsReturn("Ger.perform") /\ ~call.args[1]) => call.rval.A = call.args[2]

C19_Witness ==
  /\ IsReturn("Ger.perform")
  /\ ~call.args[1]
  /\ call.rval.out # call.args[2]
  /\ call.rval.A = call.args[2]

\* v is the literal 1 or -1, possibly cast to the dtype of the term and
\* broadcast to its rank.
IsUnitLiteral(v) ==
  LET u == StripDimShuffle(store, v)
      w == IF Owner(u) \in DOMAIN store /\ store[Owner(u)].op = "Cast"
           THEN store[Owner(u)].inputs[1]
           ELSE u
  IN  IsConst(w) /\ ConstValue(w) \in {1, -1}

\* C20 (unit scales): no Apply of the graph multiplies a term by the literal
\* 1 or -1: a term whose scale is 1 enters a rewritten expression as itself
\* and a term whose scale is -1 as its negation.
C20_NoMulByUnit ==
  \A n \in apply_nodes :
    store[n].op = "mul"
    => \A k \in DOMAIN store[n].inputs : ~IsUnitLiteral(store[n].inputs[k])

\* sum(scale_i * term_i) over a canonicalized list, from entry k on; a bare
\* entry counts as itself.
RECURSIVE ListValue(_, _)
ListValue(lst, k) ==
  IF k > Len(lst) THEN Bcast(0)
  ELSE Pointwise("Plus",
                 IF lst[k].tup
                 THEN Pointwise("Times", Bcast(ScaleValue(lst[k].s)),
                                Eval(store, lst[k].M, Env))
                 ELSE Eval(store, lst[k].M, Env),
                 ListValue(lst, k + 1))

\* C21 (decomposition keeps the signed sum): the list returned by
\* _gemm_canonicalize(root, scale = 1) satisfies sum(scale_i * term_i) = root.
C21_SignedSum ==
  (IsReturn("_gemm_canonicalize") /\ call.rval.err = "ok")
  => ListValue(call.rval.lst, 1) = Eval(store, acc, Env)

\* sub of a neg and of a mul by two scalars: four entries, the scales -1, -1
\* and two products.
C21_Witness ==
  /\ IsReturn("_gemm_canonicalize")
  /\ call.args = <<"sub", <<"neg", <<"Z">>>>, <<"mul2", <<"dot">>>>>>
  /\ Len(call.rval.lst) = 2
  /\ call.rval.lst[1].s = Num(-1)
  /\ call.rval.lst[2].s[1] = 1

\* The variables of the graph, produced by an Apply, that have more than one
\* client.
Shared == {v \in DOMAIN clients : Owner(v) # 0 /\ Cardinality(clients[v]) > 1}

KeptEntries(lst) ==
  SelectSeq(lst, LAMBDA e :
    /\ e.tup
    /\ upcast(VarType(store, ScaleVar(e.s)).dtype, VarType(store, e.M).dtype)
       = VarType(store, e.M).dtype)

HasDot22(M) == Owner(M) # 0 /\ store[Owner(M)].op = "Dot22"

\* The pairs of l that can be fused.
Fusable(l) ==
  {p \in (1..Len(l)) \X (1..Len(l)) :
     /\ p[1] < p[2]
     /\ in_same_class(VarType(store, l[p[1]].M), VarType(store, l[p[2]].M))
     /\ HasDot22(l[p[1]].M) \/ HasDot22(l[p[2]].M)}

\* The result is the fusion of the first fusable pair (i, j) of l: one Gemm
\* was built, on the Dot22 of M_j, or of M_i when M_j is none, with the other
\* term as z; it is returned alone when l has two entries, otherwise as the
\* last input of an add whose other inputs are the Len(l) - 2 remaining
\* terms, each times its scale.  Nothing is returned when no pair is fusable.
FusesFirstPair(l, r) ==
  LET gemms == {n \in DOMAIN store : store[n].op = "Gemm"}
      i == PairMin(Fusable(l))[1]
      j == PairMin(Fusable(l))[2]
      M == IF HasDot22(l[j].M) THEN l[j].M ELSE l[i].M
      L == IF HasDot22(l[j].M) THEN l[i].M ELSE l[j].M
      rest == SelectSeq([k \in 1..Len(l) |-> IF k \in {i, j} THEN 0 ELSE l[k].M],
                        LAMBDA m : m # 0)
      sum == store[Owner(r.rval)]
  IN  IF Fusable(l) = {} THEN r.rval = 0 /\ gemms = {}
      ELSE /\ Cardinality(gemms) = 1
           /\ r.old = M
           /\ \A g \in gemms :
                /\ store[g].inputs[1] = L
                /\ store[g].inputs[3] = store[Owner(M)].inputs[1]
                /\ store[g].inputs[4] = store[Owner(M)].inputs[2]
                /\ IF Len(l) = 2 THEN r.rval = OutVar(g)
                   ELSE /\ Owner(r.rval) # 0
                        /\ sum.op = "add"
                        /\ Len(sum.inputs) = Len(l) - 1
                        /\ sum.inputs[Len(sum.inputs)] = OutVar(g)
                        /\ \A k \in 1..Len(rest) :
                             /\ store[Owner(sum.inputs[k])].op = "mul"
                             /\ rest[k] \in Range(store[Owner(sum.inputs[k])].inputs)

DotQualifies(tx, ty) ==
  /\ tx.dense /\ ty.dense
  /\ tx.dtype = ty.dtype
  /\ tx.dtype \in {"float16", "float32", "float64", "complex64", "complex128"}
  /\ ndim(tx) \in {1, 2} /\ ndim(ty) \in {1, 2}

OneShuffleOf(u, v) ==
  \/ u = v
  \/ Owner(u) # 0 /\ store[Owner(u)].op = "DimShuffle" /\ store[Owner(u)].inputs = <<v>>

IsDot22Of(d, x, y) ==
  /\ Owner(d) # 0
  /\ store[Owner(d)].op = "Dot22"
  /\ Len(store[Owner(d)].inputs) = 2
  /\ OneShuffleOf(store[Owner(d)].inputs[1], x)
  /\ OneShuffleOf(store[Owner(d)].inputs[2], y)
  /\ ndim(VarType(store, store[Owner(d)].inputs[1])) = 2
  /\ ndim(VarType(store, store[Owner(d)].inputs[2])) = 2

C24_DotToDot22 ==
  IsReturn("local_dot_to_dot22") =>
    /\ call.rval.err = "ok"
    /\ (call.rval.rval # 0) <=> DotQualifies(call.args[1], call.args[2])
    /\ call.rval.rval = 0 => store = DotStore(call.args[1], call.args[2])
    /\ call.rval.rval # 0 =>
         /\ \E d \in {OutVar(n) : n \in DOMAIN store} :
              /\ IsDot22Of(d, OutVar(1), OutVar(2))
              /\ OneShuffleOf(call.rval.rval, d)
         /\ VarType(store, call.rval.rval).dtype = store[3].type.dtype
         /\ VarType(store, call.rval.rval).bc = store[3].type.bc
         /\ \A n \in 1..3 : store[n] = DotStore(call.args[1], call.args[2])[n]

C24_Witness ==
  /\ IsReturn("local_dot_to_dot22")
  /\ ndim(call.args[1]) = 2 /\ ndim(call.args[2]) = 1
  /\ call.rval.rval # 0
  /\ store[Owner(call.rval.rval)].op = "DimShuffle"
  /\ store[Owner(call.rval.rval)].order = <<0>>


\* C25 as stated: Gemm.make_node raises TypeError unless it is given exactly
\* five inputs, z, x and y of rank 2, a and b of rank 0, all of one float or
\* complex dtype; when it raises nothing the new Apply has the five inputs in
\* order and one output of the type of z; the graph and the Applies that
\* exist are unchanged.
WellTyped(ins) ==
  /\ Len(ins) = 5
  /\ \A i \in {1, 3, 4} : ndim(VarType(ViewStore, ins[i])) = 2
  /\ \A i \in {2, 5} : ndim(VarType(ViewStore, ins[i])) = 0
  /\ \A i \in 1..5 : VarType(ViewStore, ins[i]).dtype = VarType(ViewStore, ins[1]).dtype
  /\ VarType(ViewStore, ins[1]).dtype
       \in {"float16", "float32", "float64", "complex64", "complex128"}

NoGraphChange ==
  /\ apply_nodes = {}
  /\ clients = [v \in Leaves |-> {}]
  /\ outputs = <<>>
  /\ \A n \in DOMAIN ViewStore : store[n] = ViewStore[n]

MadeGemm(inplace, ins) ==
  /\ DOMAIN store = DOMAIN ViewStore \cup {MaxOf(DOMAIN ViewStore) + 1}
  /\ store[MaxOf(DOMAIN store)].op = "Gemm"
  /\ store[MaxOf(DOMAIN store)].inplace = inplace
  /\ store[MaxOf(DOMAIN store)].inputs = ins
  /\ store[MaxOf(DOMAIN store)].type = VarType(ViewStore, ins[1])

C25_TypeErrorUnlessWellTyped ==
  IsReturn("make_node") =>
    /\ ~WellTyped(call.args[2]) => call.rval = "TypeError"
    /\ call.rval = "ok" => MadeGemm(call.args[1], call.args[2])
    /\ call.rval # "ok" => store = ViewStore
    /\ NoGraphChange

\* C25 (amended): make_node raises NotImplementedError when an input is not
\* dense; otherwise TypeError unless exactly five inputs are given; otherwise
\* InconsistencyError when the op is inplace and z shares a view root with x
\* or y; otherwise TypeError unless the ranks and dtypes are as stated.  In
\* every other case it raises nothing and the new Apply has the five inputs
\* in order and one output of the type of z.  The graph and the Applies that
\* exist are unchanged.
C25_PureValidation ==
  IsReturn("make_node") =>
    /\ call.rval =
         IF \E i \in 1..Len(call.args[2]) : ~IsDense(VarType(ViewStore, call.args[2][i]))
         THEN "NotImplementedError"
         ELSE IF Len(call.args[2]) # 5 THEN "TypeError"
         ELSE IF call.args[1] /\ Aliased(call.args[2]) THEN "InconsistencyError"
         ELSE IF ~WellTyped(call.args[2]) THEN "TypeError"
         ELSE "ok"
    /\ call.rval = "ok" => MadeGemm(call.args[1], call.args[2])
    /\ call.rval # "ok" => store = ViewStore
    /\ NoGraphChange

C25_Witness ==
  /\ IsReturn("make_node")
  /\ call.args = <<FALSE, <<Zt, alpha, X, Z, beta>>>>
  /\ call.rval = "ok"
  /\ MadeGemm(FALSE, <<Zt, alpha, X, Z, beta>>)


\* C26 A Gemm, Gemv or Ger instance carries destroy_map = {0: [0]} exactly
\* when its inplace (destructive for Ger) flag is true, and carries no
\* destroy_map otherwise: after construction, and for Gemm after __setstate__
\* has restored a pickled state, one that lacks destroy_map included.
DeclaresIff(d, flag) ==
  IF d[flag] THEN "destroy_map" \in DOMAIN d /\ d["destroy_map"] = {<<0, 0>>}
  ELSE "destroy_map" \notin DOMAIN d

C26_DestroyMapIffInplace ==
  /\ IsReturn("__init__") =>
       /\ DeclaresIff(call.rval, IF call.args[1] = "Ger" THEN "destructive" ELSE "inplace")
       /\ call.rval[IF call.args[1] = "Ger" THEN "destructive" ELSE "inplace"] = call.args[2]
  /\ IsReturn("__setstate__") =>
       /\ DeclaresIff(call.rval, "inplace")
       /\ call.rval["inplace"] = call.args["inplace"]

C26_Witness ==
  /\ IsReturn("__setstate__")
  /\ call.args["inplace"]
  /\ "destroy_map" \notin DOMAIN call.args
  /\ call.rval["destroy_map"] = {<<0, 0>>}


\* C27 Within a pass of GemmOptimizer the head of the node list is visited
\* at every step and the rest of the list stays in order behind it; a
\* candidate is built only for a visited node that is an add, sub, neg or mul
\* and is in fgraph.apply_nodes, any other visited node is skipped and the
\* graph is left alone; every Apply that enters the graph during the visit is
\* another one than the visited node and is appended to the node list; the
\* pass ends only when the node list is empty.
ToldOf == SubSeq(nodelist', Len(nodelist), Len(nodelist'))

C27_WorkList ==
  [][pc = "gemm_for"
     => IF nodelist = <<>> THEN pc' = "gemm_while"
        ELSE /\ pc' = "gemm_for"
             /\ last'.by = "GemmOptimizer"
             /\ last'.node = Head(nodelist)
             /\ Len(nodelist') >= Len(nodelist) - 1
             /\ SubSeq(nodelist', 1, Len(nodelist) - 1) = Tail(nodelist)
             /\ last'.exc # "skip"
                  => IsCandidate(Head(nodelist)) /\ Head(nodelist) \in apply_nodes
             /\ last'.exc = "skip" => SameGraph /\ nodelist' = Tail(nodelist)
             /\ \A n \in apply_nodes' \ apply_nodes :
                  n # Head(nodelist) /\ n \in Range(ToldOf)]_vars

\* A replacement was committed in this pass: the next node of the list is an
\* add, sub, neg or mul that the replacement removed from the graph, and the
\* new Gemm waits further down the list.
C27_Witness ==
  /\ pc = "gemm_for"
  /\ pass_replacements > 0
  /\ nodelist # <<>>
  /\ IsCandidate(Head(nodelist))
  /\ Head(nodelist) \notin apply_nodes
  /\ \E i \in 2..Len(nodelist) :
       store[nodelist[i]].op = "Gemm" /\ nodelist[i] \in apply_nodes


\* C28 The listener of GemmOptimizer.apply is in the feature list of the
\* graph only while apply runs: when apply exits, by returning or by an
\* exception that propagates, the listener is no longer a feature and the
\* other features are those of the graph when the loop began; inside apply
\* the feature list does not change.
InApply == pc \in {"gemm_while", "gemm_for"}

RECURSIVE Copies(_), ExprValue(_, _), Pow(_, _), Exp2(_)
Copies(e) ==
  CASE e[1] = "dot" -> Copies(e[2]) + Copies(e[3])
    [] e[1] \in {"None", "eye"} -> 0
    [] OTHER -> 1

\* The inverse of a 2 x 2 matrix of determinant 1 or -1.
Inverse(m) ==
  LET det == m[1] * m[4] - m[2] * m[3]
  IN <<det * m[4], -det * m[2], -det * m[3], det * m[1]>>

ExprValue(e, m) ==
  CASE e[1] = "dot" -> Dot(ExprValue(e[2], m), ExprValue(e[3], m))
    [] e[1] = "eye" -> <<1, 0, 0, 1>>
    [] e[1] = "pinv" -> Inverse(ExprValue(e[2], m))
    [] OTHER -> m

Pow(m, n) == IF n = 0 THEN <<1, 0, 0, 1>> ELSE Dot(m, Pow(m, n - 1))

Exp2(k) == IF k = 0 THEN 1 ELSE 2 * Exp2(k - 1)

RECURSIVE Bases(_)
Bases(e) ==
  CASE e[1] = "dot" -> Bases(e[2]) \cup Bases(e[3])
    [] e[1] \in {"None", "eye"} -> {}
    [] OTHER -> {e}

Abs(n) == IF n < 0 THEN -n ELSE n

PowerOf(e, m, n, copies) ==
  /\ Copies(e) = copies
  /\ Bases(e) \subseteq {IF n < 0 THEN pinv(<<"M">>) ELSE <<"M">>}
  /\ ExprValue(e, m) = Pow(IF n < 0 THEN Inverse(m) ELSE m, copies)

C29_MatrixPower ==
  /\ IsReturn("matrix_power") =>
       /\ PowerOf(call.rval.result, call.args[1], call.args[2], Abs(call.args[2]))
       /\ call.args[2] = 0 => call.rval.result = eye
       /\ call.args[2] # 0 => call.rval.result[1] \in {"dot", "M", "pinv"}
  /\ (pc = "matrix_power_while" /\ call.rval.k > 0) =>
       /\ PowerOf(call.rval.z, call.args[1], call.args[2], Exp2(call.rval.k - 1))
       /\ Copies(call.rval.result) + Exp2(call.rval.k) * call.rval.n = Abs(call.args[2])
       /\ call.rval.result # None =>
            PowerOf(call.rval.result, call.args[1], call.args[2], Copies(call.rval.result))

\* matrix_power(M, -6) has returned: two binary digits were accumulated.
C29_Witness ==
  /\ IsReturn("matrix_power")
  /\ call.args[2] = -6
  /\ call.rval.k = 3
  /\ call.rval.result = dot(dot(pinv(<<"M">>), pinv(<<"M">>)),
                            dot(dot(pinv(<<"M">>), pinv(<<"M">>)),
                                dot(pinv(<<"M">>), pinv(<<"M">>))))


\* C30 During one dump the member names written for the arrays are pairwise
\* distinct and none is `pkl`, and every call of the persistent id on one
\* array returns the same id.
C30_DistinctNames ==
  call.fn = "dump" =>
    LET self == call.rval.self
        n == IF pc = "return" THEN Len(self.members) - 1 ELSE Len(self.members)
    IN /\ \A i \in 1..n : self.members[i] # "pkl"
       /\ \A i, j \in 1..n : i # j => self.members[i] # self.members[j]
       /\ \A i, j \in 1..Len(call.rval.ids) :
            (call.args[i].kind = "ndarray" /\ call.args[i] = call.args[j])
              => call.rval.ids[i] = call.rval.ids[j]

\* Two shared variables named x and an array of its own were dumped: the
\* members are x, x_2, array_0 and pkl.
C30_Witness ==
  /\ IsReturn("dump")
  /\ call.rval.self.members = <<"x", "x_2", "array_0", "pkl">>
  /\ call.rval.ids = <<"None", "ndarray.x", "None", "ndarray.x_2", "ndarray.array_0">>

====
